---------------------------- MODULE Spec2Model ----------------------------
(***************************************************************************)
(* A model of src/src/modi/c13.rs, the decoder of the C13 debug            *)
(* subsections of a PDB module: the subsection framer, the line program,   *)
(* the file checksum table and the cross module import and export tables.  *)
(*                                                                         *)
(* Representation.  A byte slice is a sequence of numbers 0..255.  A u32   *)
(* is the pair <<hi, lo>> of its 16-bit halves (value hi * 65536 + lo):    *)
(* TLC's integers are 32-bit signed, and bit 31 of a word matters here     *)
(* (statement flag, cross module bit, ignore tag).  A u16 and a u8 are     *)
(* plain numbers.  Option<T> is a sequence of length 0 (None) or 1 (Some). *)
(***************************************************************************)
EXTENDS Integers, Sequences, FiniteSets, TLC

VARIABLES
    pc,             \* the position of the calling program
    header,         \* SpecParse: the LineNumberHeader handed to parse
    entry,          \* SpecParse: the LineEntry that parse returned
    layout,         \* the contents the module slice was written from
    data,           \* the module's byte slice (LineProgram.data)
    call,           \* the entry point the caller used, with its argument
    debug_build,    \* whether the build checks overflow and debug assertions
    line_iter,      \* the LineIterator
    line_out,       \* the LineInfo records LineIterator::next has returned
    line_last,      \* the outcome of the last call of LineIterator::next
    line_program,   \* the LineProgram that LineProgram::parse returned
    file_iter,      \* the FileIterator
    file_out,       \* the FileInfo records FileIterator::next has returned,
                    \* each with the table offset the iterator was at
    file_info,      \* the last call of get_file_info: its index and result
    exports,        \* the CrossModuleExports that parse returned
    imports,        \* the CrossModuleImports that parse returned
    resolved,       \* the last call of resolve_global or resolve_import: its
                    \* argument and result
    address,        \* the address of the module's byte slice, modulo 4
    iter,           \* the iterator a caller drives (subsections, blocks,
                    \* inlinees, inlinee lines) or the entry points' results
    out,            \* the items that iterator has returned, in order
    log             \* what each of its steps read and did, in order

lines_vars == <<call, debug_build, line_iter, line_out, line_last>>
files_vars == <<line_program, file_iter, file_out, file_info>>
cross_vars == <<exports, imports, resolved, address>>
scan_vars == <<iter, out, log>>
vars == <<pc, header, entry, layout, data, lines_vars, files_vars, cross_vars,
          scan_vars>>

\* The variables a specification does not use stay at these values.
LinesIdle ==
    /\ call = <<>>
    /\ debug_build = FALSE
    /\ line_iter = <<>>
    /\ line_out = <<>>
    /\ line_last = <<>>

FilesIdle ==
    /\ line_program = <<>>
    /\ file_iter = <<>>
    /\ file_out = <<>>
    /\ file_info = <<>>

CrossIdle ==
    /\ exports = <<>>
    /\ imports = <<>>
    /\ resolved = <<>>
    /\ address = 0

ScanIdle ==
    /\ iter = <<>>
    /\ out = <<>>
    /\ log = <<>>

None == <<>>
Some(x) == <<x>>

-----------------------------------------------------------------------------
(* u32 arithmetic on 16-bit halves                                         *)

Half == 256 * 256

\* The u32 of a number below 2^31.
U32(n) == <<n \div Half, n % Half>>

\* `x as usize`.  A size of 2^30 or more exceeds every slice of the model and
\* is represented by 2^30.
AsUsize(w) == IF w[1] >= 16384 THEN 16384 * Half ELSE w[1] * Half + w[2]

RECURSIVE And16(_, _)
And16(a, b) ==
    IF a = 0 \/ b = 0 THEN 0
    ELSE (a % 2) * (b % 2) + 2 * And16(a \div 2, b \div 2)

RECURSIVE Or16(_, _)
Or16(a, b) ==
    IF a = 0 THEN b
    ELSE IF b = 0 THEN a
    ELSE (IF a % 2 = 1 \/ b % 2 = 1 THEN 1 ELSE 0) + 2 * Or16(a \div 2, b \div 2)

RECURSIVE Pow2(_)
Pow2(n) == IF n = 0 THEN 1 ELSE 2 * Pow2(n - 1)

U32And(a, b) == <<And16(a[1], b[1]), And16(a[2], b[2])>>
U32Or(a, b) == <<Or16(a[1], b[1]), Or16(a[2], b[2])>>
U32Not(a) == <<(Half - 1) - a[1], (Half - 1) - a[2]>>

\* a >> n for 0 <= n < 32.
U32Shr(a, n) ==
    IF n >= 16 THEN <<0, a[1] \div Pow2(n - 16)>>
    ELSE <<a[1] \div Pow2(n), (a[1] % Pow2(n)) * Pow2(16 - n) + a[2] \div Pow2(n)>>

U32Lt(a, b) == a[1] < b[1] \/ (a[1] = b[1] /\ a[2] < b[2])
U32Le(a, b) == a = b \/ U32Lt(a, b)

\* a + b modulo 2^32.
U32WrappingAdd(a, b) ==
    LET lo == a[2] + b[2]
        hi == a[1] + b[1] + (lo \div Half)
    IN  <<hi % Half, lo % Half>>

\* The masks and literals of the source.
Mask24 == <<255, 65535>>            \* 0x00ff_ffff
Mask7f == <<0, 127>>                \* 0x0000_007f
MaskDelta == <<32512, 0>>           \* 0x7f00_0000
MaskTop == <<32768, 0>>             \* 0x8000_0000
Zero32 == <<0, 0>>


-----------------------------------------------------------------------------
(* Little-endian fields and the byte cursor (ParseBuffer)                  *)

\* A u32 and a u16 read from little-endian bytes.
ReadU32(b, at) == <<b[at + 3] * 256 + b[at + 2], b[at + 1] * 256 + b[at]>>
ReadU16(b, at) == b[at + 1] * 256 + b[at]

\* The bytes a producer writes for a u32 and a u16.
U32Bytes(w) == <<w[2] % 256, w[2] \div 256, w[1] % 256, w[1] \div 256>>
U16Bytes(n) == <<n % 256, n \div 256>>

UnexpectedEof == <<"UnexpectedEof">>

ParseBuffer(d) == [data |-> d, pos |-> 0]
PBLen(buf) == Len(buf.data) - buf.pos
PBIsEmpty(buf) == PBLen(buf) = 0

\* take(n): the next n bytes, or UnexpectedEof and the cursor unmoved.
PBTake(buf, n) ==
    IF PBLen(buf) >= n
    THEN [ok |-> TRUE, buf |-> [buf EXCEPT !.pos = @ + n],
          bytes |-> SubSeq(buf.data, buf.pos + 1, buf.pos + n)]
    ELSE [ok |-> FALSE, err |-> UnexpectedEof]

\* buf.take(count as usize * 4) for a u32 count: the product is a usize and
\* does not overflow; the take fails when it is more than the bytes left,
\* that is when count is above a quarter of them.
PBTakeWords(buf, count) ==
    IF U32Lt(U32(PBLen(buf) \div 4), count)
    THEN [ok |-> FALSE, err |-> UnexpectedEof]
    ELSE PBTake(buf, AsUsize(count) * 4)

\* align(n): the cursor moved up to the next multiple of n of its position.
PBAlign(buf, n) ==
    LET diff == buf.pos % n
    IN  IF diff = 0 THEN [ok |-> TRUE, buf |-> buf]
        ELSE IF PBLen(buf) < n - diff THEN [ok |-> FALSE, err |-> UnexpectedEof]
        ELSE [ok |-> TRUE, buf |-> [buf EXCEPT !.pos = @ + (n - diff)]]

-----------------------------------------------------------------------------
(* DebugSubsectionIterator                                                 *)

KindSymbols == U32(241)                 \* 0xf1
KindLines == U32(242)                   \* 0xf2
KindFileChecksums == U32(244)           \* 0xf4
KindCrossScopeImports == U32(247)       \* 0xf7
KindCrossScopeExports == U32(248)       \* 0xf8
KindCoffSymbolRva == U32(253)           \* 0xfd
DEBUG_S_IGNORE == <<32768, 0>>          \* 0x8000_0000

DebugSubsectionKind_parse(value) ==
    IF U32Le(KindSymbols, value) /\ U32Le(value, KindCoffSymbolRva)
    THEN [ok |-> TRUE, kind |-> Some(value)]
    ELSE IF value = DEBUG_S_IGNORE
    THEN [ok |-> TRUE, kind |-> None]
    ELSE [ok |-> FALSE, err |-> <<"UnimplementedDebugSubsection", value>>]

\* A turn that leaves the cursor where it was when the kind is unknown.
TurnRewindingOnError(buf) ==
    LET h == PBTake(buf, 8)
    IN  IF ~h.ok THEN [tag |-> "Err", buf |-> buf, err |-> h.err]
        ELSE
            LET kind == ReadU32(h.bytes, 1)
                len == ReadU32(h.bytes, 5)
                d == PBTake(h.buf, AsUsize(len))
            IN  IF ~d.ok THEN [tag |-> "Err", buf |-> h.buf, err |-> d.err]
                ELSE
                    LET k == DebugSubsectionKind_parse(kind)
                    IN  IF ~k.ok
                        THEN [tag |-> "Err", buf |-> buf, err |-> k.err]
                        ELSE IF k.kind = None
                        THEN [tag |-> "Continue", buf |-> d.buf]
                        ELSE [tag |-> "Some", buf |-> d.buf,
                              item |-> [kind |-> k.kind[1], data |-> d.bytes]]

\* A turn that looks at the kind before it takes the body.
TurnKindFirst(buf) ==
    LET h == PBTake(buf, 8)
    IN  IF ~h.ok THEN [tag |-> "Err", buf |-> buf, err |-> h.err]
        ELSE
            LET kind == ReadU32(h.bytes, 1)
                len == ReadU32(h.bytes, 5)
                k == DebugSubsectionKind_parse(kind)
            IN  IF ~k.ok THEN [tag |-> "Err", buf |-> h.buf, err |-> k.err]
                ELSE IF k.kind = None THEN [tag |-> "Continue", buf |-> h.buf]
                ELSE LET d == PBTake(h.buf, AsUsize(len))
                     IN  IF ~d.ok THEN [tag |-> "Err", buf |-> h.buf, err |-> d.err]
                         ELSE [tag |-> "Some", buf |-> d.buf,
                               item |-> [kind |-> k.kind[1], data |-> d.bytes]]

\* One turn of the loop of next() over a cursor that is not empty: the header
\* is read, then the body is taken, then the kind is looked at.  "Continue"
\* is the ignore tag's `continue`; buf is the cursor the turn leaves.
DebugSubsectionIterator_turn(buf) ==
    LET h == PBTake(buf, 8)
    IN  IF ~h.ok THEN [tag |-> "Err", buf |-> buf, err |-> h.err]
        ELSE
            LET kind == ReadU32(h.bytes, 1)
                len == ReadU32(h.bytes, 5)
                d == PBTake(h.buf, AsUsize(len))
            IN  IF ~d.ok THEN [tag |-> "Err", buf |-> h.buf, err |-> d.err]
                ELSE
                    LET k == DebugSubsectionKind_parse(kind)
                    IN  IF ~k.ok
                        THEN [tag |-> "Err", buf |-> d.buf, err |-> k.err]
                        ELSE IF k.kind = None
                        THEN [tag |-> "Continue", buf |-> d.buf]
                        ELSE [tag |-> "Some", buf |-> d.buf,
                              item |-> [kind |-> k.kind[1], data |-> d.bytes]]

\* next(): [tag, buf] with the subsection when tag = "Some" and the error when
\* tag = "Err".  buf is the cursor the iterator is left with.
RECURSIVE DebugSubsectionIterator_next(_)
DebugSubsectionIterator_next(buf) ==
    IF PBIsEmpty(buf) THEN [tag |-> "None", buf |-> buf]
    ELSE LET t == DebugSubsectionIterator_turn(buf)
         IN  IF t.tag = "Continue" THEN DebugSubsectionIterator_next(t.buf)
             ELSE t

\* The turns of the loop that one call of next() takes: for each, the cursor
\* position before and after it and how it ended.
RECURSIVE TurnsOfNext(_)
TurnsOfNext(buf) ==
    IF PBIsEmpty(buf) THEN <<>>
    ELSE LET t == DebugSubsectionIterator_turn(buf)
             turn == [from |-> buf.pos, to |-> t.buf.pos, tag |-> t.tag]
         IN  IF t.tag = "Continue" THEN <<turn>> \o TurnsOfNext(t.buf)
             ELSE <<turn>>

-----------------------------------------------------------------------------
(* LineNumberHeader::parse                                                 *)

DoNotStepOntoLine == <<254, 61422>>     \* 0xfee_fee
DoNotStepIntoLine == <<240,  3840>>     \* 0xf00_f00

\* let start_line = self.flags & 0x00ff_ffff;
StartLineOf(flags) == U32And(flags, Mask24)

\* match start_line { 0xfee_fee => .., 0xf00_f00 => .., _ => None }
MarkerMaskedOff(flags) ==
    IF flags = DoNotStepOntoLine THEN Some("DoNotStepOnto")
    ELSE IF flags = DoNotStepIntoLine THEN Some("DoNotStepInto")
    ELSE None

MarkerOf(flags) ==
    LET start_line == StartLineOf(flags)
    IN  IF start_line = DoNotStepOntoLine THEN Some("DoNotStepOnto")
        ELSE IF start_line = DoNotStepIntoLine THEN Some("DoNotStepInto")
        ELSE None

\* let line_delta = self.flags & 0x7f00_0000 >> 24;
\* In Rust `>>` binds tighter than `&`: this is flags & (0x7f00_0000 >> 24).
LineDeltaOf(flags) == U32And(flags, U32Shr(MaskDelta, 24))

\* The end line of a number entry: the high bits of start_line OR line_delta,
\* plus 1 << 7 when that is below start_line.
EndLineNoStrict(start_line, line_delta) ==
    LET high_start == U32And(start_line, U32Not(Mask7f))
        end_line == U32Or(high_start, line_delta)
    IN  IF U32Le(end_line, start_line)
        THEN U32WrappingAdd(end_line, U32(128))
        ELSE end_line

EndLineOf(start_line, line_delta) ==
    LET high_start == U32And(start_line, U32Not(Mask7f))
        end_line == U32Or(high_start, line_delta)
    IN  IF U32Lt(end_line, start_line)
        THEN U32WrappingAdd(end_line, U32(128))
        ELSE end_line

\* let kind = if self.flags & 0x8000_0000 != 0 { Statement } else { Expression };
LineKindOf(flags) ==
    IF U32And(flags, MaskTop) # Zero32 THEN "Statement" ELSE "Expression"

LineNumberHeader_parse(h) ==
    LET marker == MarkerOf(h.flags)
        start_line == StartLineOf(h.flags)
    IN  IF marker # None
        THEN [tag |-> "Marker", offset |-> h.offset, kind |-> marker[1]]
        ELSE [tag |-> "Number", offset |-> h.offset,
              start_line |-> start_line,
              end_line |-> EndLineOf(start_line, LineDeltaOf(h.flags)),
              kind |-> LineKindOf(h.flags)]

-----------------------------------------------------------------------------
(* The lines subsection: header, blocks, line and column records           *)

CV_LINES_HAVE_COLUMNS == 1

DebugLinesHeader_SIZE == 12
DebugLinesBlockHeader_SIZE == 12
LineNumberHeader_SIZE == 8
ColumnNumberEntry_SIZE == 4

DefaultLinesHeader ==
    [offset |-> [offset |-> Zero32, section |-> 0], flags |-> 0, code_size |-> Zero32]
DefaultBlockHeader ==
    [file_index |-> Zero32, num_lines |-> Zero32, block_size |-> Zero32]

DebugLinesHeader_has_columns(h) == And16(h.flags, CV_LINES_HAVE_COLUMNS) # 0

\* DebugLinesSubsection::parse: the 12-byte header {offset: {offset: u32,
\* section: u16}, flags: u16, code_size: u32}, then the blocks.
DebugLinesSubsection_parse(d) ==
    LET h == PBTake(ParseBuffer(d), DebugLinesHeader_SIZE)
    IN  IF ~h.ok THEN [ok |-> FALSE, err |-> h.err]
        ELSE [ok |-> TRUE,
              header |-> [offset |-> [offset |-> ReadU32(h.bytes, 1),
                                      section |-> ReadU16(h.bytes, 5)],
                          flags |-> ReadU16(h.bytes, 7),
                          code_size |-> ReadU32(h.bytes, 9)],
              data |-> SubSeq(d, DebugLinesHeader_SIZE + 1, Len(d))]

DebugLinesSubsection_blocks(sub) ==
    [header |-> sub.header, buf |-> ParseBuffer(sub.data)]

DebugLinesBlockHeader_line_size(h) == AsUsize(h.num_lines) * LineNumberHeader_SIZE

DebugLinesBlockHeader_column_size(h, subsection) ==
    IF DebugLinesHeader_has_columns(subsection)
    THEN AsUsize(h.num_lines) * ColumnNumberEntry_SIZE
    ELSE 0

\* DebugLinesBlockIterator::next on the iterator it = [header, buf].  debug is
\* whether the build checks overflow and debug assertions.  block_size - 12
\* below zero panics when checked and wraps to a size no slice has otherwise;
\* split_at past the end panics in every build.
DebugLinesBlockIterator_next(it, debug) ==
    IF PBIsEmpty(it.buf) THEN [tag |-> "None", iter |-> it]
    ELSE
        LET h == PBTake(it.buf, DebugLinesBlockHeader_SIZE)
        IN  IF ~h.ok THEN [tag |-> "Err", iter |-> it, err |-> h.err]
            ELSE
                LET hdr == [file_index |-> ReadU32(h.bytes, 1),
                            num_lines |-> ReadU32(h.bytes, 5),
                            block_size |-> ReadU32(h.bytes, 9)]
                    it1 == [it EXCEPT !.buf = h.buf]
                    underflow == AsUsize(hdr.block_size) < DebugLinesBlockHeader_SIZE
                    data_size == AsUsize(hdr.block_size) - DebugLinesBlockHeader_SIZE
                    d == PBTake(h.buf, data_size)
                    line_size == DebugLinesBlockHeader_line_size(hdr)
                    column_size == DebugLinesBlockHeader_column_size(hdr, it.header)
                IN  IF underflow
                    THEN IF debug THEN [tag |-> "Panic", iter |-> it1]
                         ELSE [tag |-> "Err", iter |-> it1, err |-> UnexpectedEof]
                    ELSE IF ~d.ok THEN [tag |-> "Err", iter |-> it1, err |-> d.err]
                    ELSE IF line_size > data_size
                              \/ column_size > data_size - line_size
                              \/ (debug /\ data_size - line_size - column_size # 0)
                    THEN [tag |-> "Panic", iter |-> [it EXCEPT !.buf = d.buf]]
                    ELSE [tag |-> "Some", iter |-> [it EXCEPT !.buf = d.buf],
                          item |-> [header |-> hdr,
                                    line_data |-> SubSeq(d.bytes, 1, line_size),
                                    column_data |-> SubSeq(d.bytes, line_size + 1,
                                                           line_size + column_size)]]

\* DebugLinesBlock::lines
DebugLinesBlock_lines(block) ==
    [block |-> block.header, buf |-> ParseBuffer(block.line_data)]

\* DebugLinesBlock::columns, which hands the column iterator self.line_data.
DebugLinesBlock_columns(block) ==
    [block |-> block.header, buf |-> ParseBuffer(block.line_data)]

DebugLinesIterator_next(it) ==
    IF PBIsEmpty(it.buf) THEN [tag |-> "None", iter |-> it]
    ELSE
        LET r == PBTake(it.buf, LineNumberHeader_SIZE)
        IN  IF ~r.ok THEN [tag |-> "Err", iter |-> it, err |-> r.err]
            ELSE [tag |-> "Some", iter |-> [it EXCEPT !.buf = r.buf],
                  item |-> LineNumberHeader_parse(
                               [offset |-> ReadU32(r.bytes, 1),
                                flags |-> ReadU32(r.bytes, 5)])]

DebugColumnsIterator_next(it) ==
    IF PBIsEmpty(it.buf) THEN [tag |-> "None", iter |-> it]
    ELSE
        LET r == PBTake(it.buf, ColumnNumberEntry_SIZE)
        IN  IF ~r.ok THEN [tag |-> "Err", iter |-> it, err |-> r.err]
            ELSE [tag |-> "Some", iter |-> [it EXCEPT !.buf = r.buf],
                  item |-> [start_column |-> ReadU16(r.bytes, 1),
                            end_column |-> ReadU16(r.bytes, 3)]]

-----------------------------------------------------------------------------
(* LineIterator                                                            *)

DefaultBlockIterator == [header |-> DefaultLinesHeader, buf |-> ParseBuffer(<<>>)]
DefaultRecordIterator == [block |-> DefaultBlockHeader, buf |-> ParseBuffer(<<>>)]

DefaultLineIterator ==
    [sections |-> ParseBuffer(<<>>),
     blocks |-> DefaultBlockIterator,
     lines |-> DefaultRecordIterator,
     columns |-> DefaultRecordIterator]

\* PdbInternalSectionOffset + u32: the offset field plus the addend.  A sum
\* past 2^32 panics when overflow is checked and wraps otherwise.
SectionOffsetOverflows(base, delta) ==
    base.offset[1] + delta[1] + ((base.offset[2] + delta[2]) \div Half) >= Half

SectionOffsetAdd(base, delta) ==
    [base EXCEPT !.offset = U32WrappingAdd(@, delta)]

\* if section.kind == DebugSubsectionKind::Lines
SectionOfAnyKind(section) == TRUE

SectionIsLines(section) == section.kind = KindLines

\* LineIterator::next: [tag, iter] with the LineInfo when tag = "Some".
RECURSIVE LineIterator_next(_, _)
LineIterator_next(it, debug) ==
    LET l == DebugLinesIterator_next(it.lines)
    IN  IF l.tag = "Err" THEN [tag |-> "Err", iter |-> it, err |-> l.err]
        ELSE IF l.tag = "Some" THEN
            LET c == DebugColumnsIterator_next(it.columns)
                it1 == [it EXCEPT !.lines = l.iter]
            IN  IF c.tag = "Err" THEN [tag |-> "Err", iter |-> it1, err |-> c.err]
                ELSE
                    LET it2 == [it1 EXCEPT !.columns = c.iter]
                        column_entry == IF c.tag = "Some" THEN Some(c.item) ELSE None
                        section_header == it2.blocks.header
                        block_header == it2.lines.block
                    IN  IF l.item.tag = "Marker" THEN LineIterator_next(it2, debug)
                        ELSE IF debug /\ SectionOffsetOverflows(section_header.offset,
                                                                l.item.offset)
                        THEN [tag |-> "Panic", iter |-> it2]
                        ELSE [tag |-> "Some", iter |-> it2,
                              item |-> [offset |-> SectionOffsetAdd(section_header.offset,
                                                                    l.item.offset),
                                        length |-> None,
                                        file_index |-> block_header.file_index,
                                        line_start |-> l.item.start_line,
                                        line_end |-> l.item.end_line,
                                        column_start |->
                                            IF column_entry = None THEN None
                                            ELSE Some(U32(column_entry[1].start_column)),
                                        column_end |->
                                            IF column_entry = None THEN None
                                            ELSE Some(U32(column_entry[1].end_column)),
                                        kind |-> l.item.kind]]
        ELSE
            LET b == DebugLinesBlockIterator_next(it.blocks, debug)
            IN  IF b.tag = "Err"
                THEN [tag |-> "Err", iter |-> [it EXCEPT !.blocks = b.iter], err |-> b.err]
                ELSE IF b.tag = "Panic"
                THEN [tag |-> "Panic", iter |-> [it EXCEPT !.blocks = b.iter]]
                ELSE IF b.tag = "Some"
                THEN LineIterator_next([it EXCEPT !.blocks = b.iter,
                                                  !.lines = DebugLinesBlock_lines(b.item),
                                                  !.columns = DebugLinesBlock_columns(b.item)],
                                       debug)
                ELSE
                    LET s == DebugSubsectionIterator_next(it.sections)
                        it3 == [it EXCEPT !.sections = s.buf]
                    IN  IF s.tag = "Err"
                        THEN [tag |-> "Err", iter |-> it3, err |-> s.err]
                        ELSE IF s.tag = "None" THEN [tag |-> "None", iter |-> it3]
                        ELSE IF SectionIsLines(s.item)
                        THEN LET p == DebugLinesSubsection_parse(s.item.data)
                             IN  IF ~p.ok
                                 THEN [tag |-> "Err", iter |-> it3, err |-> p.err]
                                 ELSE LineIterator_next(
                                          [it3 EXCEPT !.blocks =
                                               DebugLinesSubsection_blocks(p)],
                                          debug)
                        ELSE LineIterator_next(it3, debug)

\* LineProgram::lines
LineProgram_lines(d) ==
    [DefaultLineIterator EXCEPT !.sections = ParseBuffer(d)]

\* |lines_section| lines_section.header.offset == offset
HeaderOffsetAny(lines_section, offset) == TRUE

HeaderOffsetIs(lines_section, offset) == lines_section.header.offset = offset

\* The find of lines_at_offset: the first subsection of kind Lines, parsed,
\* whose header offset is `offset`; an error of the framer or of the parse
\* ends the search with that error.
RECURSIVE FindLinesSection(_, _)
FindLinesSection(buf, offset) ==
    LET s == DebugSubsectionIterator_next(buf)
    IN  IF s.tag = "Err" THEN [tag |-> "Err", err |-> s.err]
        ELSE IF s.tag = "None" THEN [tag |-> "None"]
        ELSE IF s.item.kind # KindLines THEN FindLinesSection(s.buf, offset)
        ELSE LET p == DebugLinesSubsection_parse(s.item.data)
             IN  IF ~p.ok THEN [tag |-> "Err", err |-> p.err]
                 ELSE IF HeaderOffsetIs(p, offset)
                 THEN [tag |-> "Some", item |-> p]
                 ELSE FindLinesSection(s.buf, offset)

\* LineProgram::lines_at_offset
LineProgram_lines_at_offset(d, offset) ==
    LET section == FindLinesSection(ParseBuffer(d), offset)
    IN  IF section.tag = "Some"
        THEN [DefaultLineIterator EXCEPT !.blocks = DebugLinesSubsection_blocks(section.item)]
        ELSE DefaultLineIterator

-----------------------------------------------------------------------------
(* The file checksum table and LineProgram                                 *)

FileChecksumHeader_SIZE == 6
FileChecksumAlignment == 4
MaxFileChecksumKind == 3

\* FileChecksumKind::parse
FileChecksumKind_parse(value) ==
    IF value <= MaxFileChecksumKind
    THEN [ok |-> TRUE,
          kind |-> CASE value = 0 -> "None" [] value = 1 -> "Md5"
                     [] value = 2 -> "Sha1" [] OTHER -> "Sha256"]
    ELSE [ok |-> FALSE, err |-> <<"UnimplementedFileChecksumKind", value>>]

\* DebugFileChecksumsIterator::next on the cursor buf: the header {name_offset:
\* u32, checksum_size: u8, checksum_kind: u8}, checksum_size bytes, then the
\* padding up to a multiple of 4.
DebugFileChecksumsIterator_next(buf) ==
    IF PBIsEmpty(buf) THEN [tag |-> "None", buf |-> buf]
    ELSE
        LET h == PBTake(buf, FileChecksumHeader_SIZE)
        IN  IF ~h.ok THEN [tag |-> "Err", buf |-> buf, err |-> h.err]
            ELSE
                LET name_offset == ReadU32(h.bytes, 1)
                    checksum_size == h.bytes[5]
                    checksum_kind == h.bytes[6]
                    c == PBTake(h.buf, checksum_size)
                IN  IF ~c.ok THEN [tag |-> "Err", buf |-> h.buf, err |-> c.err]
                    ELSE
                        LET k == FileChecksumKind_parse(checksum_kind)
                            a == PBAlign(c.buf, FileChecksumAlignment)
                        IN  IF ~k.ok THEN [tag |-> "Err", buf |-> c.buf, err |-> k.err]
                            ELSE IF ~a.ok THEN [tag |-> "Err", buf |-> c.buf, err |-> a.err]
                            ELSE [tag |-> "Some", buf |-> a.buf,
                                  item |-> [name |-> name_offset,
                                            checksum |-> IF k.kind = "None" THEN <<"None">>
                                                         ELSE <<k.kind, c.bytes>>]]

\* DebugFileChecksumsSubsection::entries_at_offset, without the skip.
EntriesFromStart(table, offset) ==
    [ok |-> TRUE, iter |-> ParseBuffer(table)]

\* DebugFileChecksumsSubsection::entries_at_offset
DebugFileChecksumsSubsection_entries_at_offset(table, offset) ==
    LET t == PBTake(ParseBuffer(table), AsUsize(offset))
    IN  IF ~t.ok THEN [ok |-> FALSE, err |-> t.err]
        ELSE [ok |-> TRUE, iter |-> t.buf]

\* DebugFileChecksumsSubsection::entries
DebugFileChecksumsSubsection_entries(table) ==
    DebugFileChecksumsSubsection_entries_at_offset(table, Zero32)

\* A find that takes the first subsection, whatever its kind.
FindFirstOfAnyKind(buf, kind) ==
    LET s == DebugSubsectionIterator_next(buf)
    IN  IF s.tag = "Err" THEN [tag |-> "Err", err |-> s.err]
        ELSE IF s.tag = "None" THEN [tag |-> "None"]
        ELSE [tag |-> "Some", item |-> s.item, at |-> s.buf.pos - Len(s.item.data)]

\* DebugSubsectionIterator::new(data).find(|sec| sec.kind == kind)
RECURSIVE FindSubsection(_, _)
FindSubsection(buf, kind) ==
    LET s == DebugSubsectionIterator_next(buf)
    IN  IF s.tag = "Err" THEN [tag |-> "Err", err |-> s.err]
        ELSE IF s.tag = "None" THEN [tag |-> "None"]
        ELSE IF s.item.kind = kind
        THEN [tag |-> "Some", item |-> s.item, at |-> s.buf.pos - Len(s.item.data)]
        ELSE FindSubsection(s.buf, kind)

\* LineProgram::parse: the module slice and its first FileChecksums
\* subsection, an empty table when there is none.
LineProgram_parse(d) ==
    LET found == FindSubsection(ParseBuffer(d), KindFileChecksums)
    IN  IF found.tag = "Err" THEN [ok |-> FALSE, err |-> found.err]
        ELSE [ok |-> TRUE,
              program |-> [data |-> d,
                           file_checksums |-> IF found.tag = "Some"
                                              THEN found.item.data ELSE <<>>]]

\* LineProgram::files
LineProgram_files(program) ==
    LET entries == DebugFileChecksumsSubsection_entries(program.file_checksums)
    IN  IF entries.ok THEN entries.iter ELSE ParseBuffer(<<>>)

\* FileIterator::next
FileIterator_next(buf) == DebugFileChecksumsIterator_next(buf)

\* LineProgram::get_file_info: Ok(FileInfo) or Err(error).
LineProgram_get_file_info(program, index) ==
    LET entries == DebugFileChecksumsSubsection_entries_at_offset(
                       program.file_checksums, index)
    IN  IF ~entries.ok THEN <<"Err", entries.err>>
        ELSE
            LET e == DebugFileChecksumsIterator_next(entries.iter)
            IN  IF e.tag = "Err" THEN <<"Err", e.err>>
                ELSE IF e.tag = "None"
                THEN <<"Err", <<"InvalidFileChecksumOffset", index>>>>
                ELSE <<"Ok", e.item>>

-----------------------------------------------------------------------------
(* SpecParse: LineNumberHeader::parse applied to packed words              *)

\* The 24-bit start lines tried: around the 128-line wrap, the two sentinels
\* and their neighbours, and the largest value.
StartLines ==
    { U32(n) : n \in {0, 1, 16, 127, 128, 129, 200, 255, 256, 383, 65535, 65664} }
    \cup { DoNotStepOntoLine, DoNotStepIntoLine,
           <<254, 61421>>, <<254, 61423>>, <<240, 3839>>, <<240, 3841>>,
           <<255, 65535>>, <<255, 65408>> }

\* Every value of bits 24..30 and both values of bit 31.
TopBytes == 0 .. 255

PackedWords == { <<top * 256 + s[1], s[2]>> : top \in TopBytes, s \in StartLines }

RecordOffsets == { U32(0), U32(4660), <<65535, 65535>> }

\* The fields of a packed word as the format defines them.
FieldStart(w) == <<w[1] % 256, w[2]>>
FieldDelta(w) == (w[1] \div 256) % 128
FieldStatement(w) == w[1] \div 32768 = 1
IsSentinel(w) == FieldStart(w) \in {DoNotStepOntoLine, DoNotStepIntoLine}

InitParse ==
    /\ pc = "start"
    /\ header \in [offset : RecordOffsets, flags : PackedWords]
    /\ entry = None
    /\ layout = <<>>
    /\ data = <<>>
    /\ LinesIdle
    /\ FilesIdle
    /\ CrossIdle
    /\ ScanIdle

ParseHeader ==
    /\ pc = "start"
    /\ pc' = "parsed"
    /\ entry' = Some(LineNumberHeader_parse(header))
    /\ UNCHANGED <<header, layout, data, lines_vars, files_vars, cross_vars, scan_vars>>

NextParse == ParseHeader

SpecParse == InitParse /\ [][NextParse]_vars


-----------------------------------------------------------------------------
(* Module slices: what a producer writes                                   *)

RECURSIVE Flatten(_)
Flatten(ss) == IF ss = <<>> THEN <<>> ELSE Head(ss) \o Flatten(Tail(ss))

EncodeLine(l) == U32Bytes(l.offset) \o U32Bytes(l.flags)
EncodeColumn(l) == U16Bytes(l.start_column) \o U16Bytes(l.end_column)

\* A block: {file_index, num_lines, block_size}, the line records and, when
\* the subsection declares columns, as many column records.
EncodeBlock(b, cols) ==
    LET n == Len(b.lines)
        size == DebugLinesBlockHeader_SIZE + n * LineNumberHeader_SIZE
                + (IF cols THEN n * ColumnNumberEntry_SIZE ELSE 0)
    IN  U32Bytes(b.file_index) \o U32Bytes(U32(n)) \o U32Bytes(U32(size))
        \o Flatten([i \in 1 .. n |-> EncodeLine(b.lines[i])])
        \o (IF cols THEN Flatten([i \in 1 .. n |-> EncodeColumn(b.lines[i])]) ELSE <<>>)

\* The body of a lines subsection: its header, then its blocks.
EncodeLinesBody(s) ==
    U32Bytes(s.offset.offset) \o U16Bytes(s.offset.section)
    \o U16Bytes(IF s.cols THEN CV_LINES_HAVE_COLUMNS ELSE 0)
    \o U32Bytes(U32(64))
    \o Flatten([i \in 1 .. Len(s.blocks) |-> EncodeBlock(s.blocks[i], s.cols)])

\* A subsection: {kind, len}, then len bytes of body.
EncodeSubsection(kind, body) == U32Bytes(kind) \o U32Bytes(U32(Len(body))) \o body

EncodeLinesModule(m) ==
    Flatten([i \in 1 .. Len(m) |-> EncodeSubsection(m[i].kind, EncodeLinesBody(m[i]))])

-----------------------------------------------------------------------------
(* SpecLines: LineProgram::lines and lines_at_offset over module slices    *)

\* The number of subsections, blocks and line records of a module together.
MaxItems == 6

Offset1 == [offset |-> U32(4096), section |-> 1]
Offset2 == [offset |-> U32(70000), section |-> 1]

\* Subsections are lines subsections at one of two offsets, with or without
\* columns, or hold the same bytes under another kind or the ignore tag.
SectionHeads ==
    { [kind |-> KindLines, offset |-> Offset1, cols |-> FALSE],
      [kind |-> KindLines, offset |-> Offset1, cols |-> TRUE],
      [kind |-> KindLines, offset |-> Offset2, cols |-> TRUE],
      [kind |-> KindSymbols, offset |-> Offset1, cols |-> FALSE],
      [kind |-> DEBUG_S_IGNORE, offset |-> Offset1, cols |-> TRUE] }

\* The line records tried as the k-th item: a statement with a delta field,
\* an expression past line 65535, and a marker with bits set in 24..31.
LineChoices(k) ==
    { [offset |-> U32(257 * k), flags |-> <<32768 + 256 * (k + 3), 300 + k>>,
       start_column |-> k, end_column |-> 256 + k],
      [offset |-> U32(257 * k), flags |-> <<1, k>>,
       start_column |-> k, end_column |-> 256 + k],
      [offset |-> U32(257 * k), flags |-> <<34302, 61422>>,
       start_column |-> k, end_column |-> 256 + k] }

\* The number of items of module m.
RECURSIVE SumOver(_, _, _)
SumOver(f(_), seq, i) == IF i > Len(seq) THEN 0 ELSE f(seq[i]) + SumOver(f, seq, i + 1)

BlockItems(b) == 1 + Len(b.lines)
SectionItems(sec) == 1 + SumOver(BlockItems, sec.blocks, 1)
ItemCount(m) == SumOver(SectionItems, m, 1)

QueryOffsets == {Offset1, Offset2}

InitLines ==
    /\ pc = "start"
    /\ header = <<>>
    /\ entry = None
    /\ layout = <<>>
    /\ data = <<>>
    /\ call = <<>>
    /\ debug_build \in BOOLEAN
    /\ line_iter = DefaultLineIterator
    /\ line_out = <<>>
    /\ line_last = <<>>
    /\ FilesIdle
    /\ CrossIdle
    /\ ScanIdle

\* The producer appends an empty subsection to the module.
WriteSubsection(h) ==
    /\ pc = "start"
    /\ ItemCount(layout) < MaxItems
    /\ layout' = Append(layout, [kind |-> h.kind, offset |-> h.offset,
                                 cols |-> h.cols, blocks |-> <<>>])
    /\ data' = EncodeLinesModule(layout')
    /\ UNCHANGED <<pc, header, entry, lines_vars, files_vars, cross_vars, scan_vars>>

\* The producer appends an empty block to the last subsection.
WriteBlock ==
    /\ pc = "start"
    /\ ItemCount(layout) < MaxItems
    /\ Len(layout) > 0
    /\ layout' = [layout EXCEPT ![Len(layout)].blocks =
                      Append(@, [file_index |-> U32(24 * ItemCount(layout)),
                                 lines |-> <<>>])]
    /\ data' = EncodeLinesModule(layout')
    /\ UNCHANGED <<pc, header, entry, lines_vars, files_vars, cross_vars, scan_vars>>

\* The producer appends a line record (and its column record) to the last block.
WriteLine(l) ==
    /\ pc = "start"
    /\ ItemCount(layout) < MaxItems
    /\ Len(layout) > 0
    /\ Len(layout[Len(layout)].blocks) > 0
    /\ layout' = [layout EXCEPT
                      ![Len(layout)].blocks[Len(layout[Len(layout)].blocks)].lines =
                          Append(@, l)]
    /\ data' = EncodeLinesModule(layout')
    /\ UNCHANGED <<pc, header, entry, lines_vars, files_vars, cross_vars, scan_vars>>

\* let iter = program.lines();
CallLines ==
    /\ pc = "start"
    /\ pc' = "iter"
    /\ call' = <<"lines">>
    /\ line_iter' = LineProgram_lines(data)
    /\ UNCHANGED <<header, entry, layout, data, debug_build, line_out, line_last, files_vars, cross_vars, scan_vars>>

\* let iter = program.lines_at_offset(offset);
CallLinesAtOffset(offset) ==
    /\ pc = "start"
    /\ pc' = "iter"
    /\ call' = <<"lines_at_offset", offset>>
    /\ line_iter' = LineProgram_lines_at_offset(data, offset)
    /\ UNCHANGED <<header, entry, layout, data, debug_build, line_out, line_last, files_vars, cross_vars, scan_vars>>

\* iter.next()
LineIteratorNext ==
    /\ pc = "iter"
    /\ LET r == LineIterator_next(line_iter, debug_build)
       IN  /\ line_iter' = r.iter
           /\ line_out' = IF r.tag = "Some" THEN Append(line_out, r.item) ELSE line_out
           /\ line_last' = IF r.tag = "Err" THEN <<r.tag, r.err>> ELSE <<r.tag>>
           /\ pc' = CASE r.tag = "Some" -> "iter"
                      [] r.tag = "None" -> "done"
                      [] r.tag = "Err" -> "error"
                      [] OTHER -> "panic"
    /\ UNCHANGED <<header, entry, layout, data, call, debug_build, files_vars, cross_vars, scan_vars>>

NextLines ==
    \/ \E h \in SectionHeads : WriteSubsection(h)
    \/ WriteBlock
    \/ \E l \in LineChoices(ItemCount(layout)) : WriteLine(l)
    \/ CallLines
    \/ \E offset \in QueryOffsets : CallLinesAtOffset(offset)
    \/ LineIteratorNext

SpecLines == InitLines /\ [][NextLines]_vars

-----------------------------------------------------------------------------
(* SpecFiles: LineProgram::files and get_file_info over checksum tables    *)

\* The number of entries of the file checksum table.
MaxFiles == 2
\* How far past the end of the table get_file_info is called.
MaxPastEnd == 2

\* The entries tried as the k-th: the four kinds at their usual sizes, and a
\* checksum of one byte, which needs one byte of padding.
ChecksumChoices(k) ==
    { [name |-> U32(300 * k + 1), kind |-> c[1], size |-> c[2]] :
          c \in {<<0, 0>>, <<1, 16>>, <<2, 20>>, <<3, 32>>, <<1, 1>>} }

ChecksumByte(k, i) == (16 * k + i) % 256

\* An entry as a producer writes it, k entries before it in the table.
EncodeChecksum(e, k) ==
    LET raw == U32Bytes(e.name) \o <<e.size, e.kind>>
               \o [i \in 1 .. e.size |-> ChecksumByte(k, i)]
        pad == (FileChecksumAlignment - (Len(raw) % FileChecksumAlignment))
               % FileChecksumAlignment
    IN  raw \o [i \in 1 .. pad |-> 0]

EncodeChecksumTable(es) == Flatten([i \in 1 .. Len(es) |-> EncodeChecksum(es[i], i - 1)])

\* The module: a Symbols subsection when `lead`, then the FileChecksums
\* subsection when `present`.
EncodeFilesModule(m) ==
    (IF m.lead THEN EncodeSubsection(KindSymbols, <<1, 2, 3, 4>>) ELSE <<>>)
    \o (IF m.present
        THEN EncodeSubsection(KindFileChecksums, EncodeChecksumTable(m.entries))
        ELSE <<>>)

TableOf(m) == IF m.present THEN EncodeChecksumTable(m.entries) ELSE <<>>

InitFiles ==
    /\ pc = "start"
    /\ header = <<>>
    /\ entry = None
    /\ layout \in [lead : BOOLEAN, present : BOOLEAN, entries : {<<>>}]
    /\ data = EncodeFilesModule(layout)
    /\ LinesIdle
    /\ FilesIdle
    /\ CrossIdle
    /\ ScanIdle

\* The producer appends an entry to the file checksum table.
WriteChecksum(e) ==
    /\ pc = "start"
    /\ layout.present
    /\ Len(layout.entries) < MaxFiles
    /\ layout' = [layout EXCEPT !.entries = Append(@, e)]
    /\ data' = EncodeFilesModule(layout')
    /\ UNCHANGED <<pc, header, entry, lines_vars, files_vars, cross_vars, scan_vars>>

\* let program = LineProgram::parse(data)?;
ParseProgram ==
    /\ pc = "start"
    /\ LET r == LineProgram_parse(data)
       IN  /\ pc' = IF r.ok THEN "program" ELSE "error"
           /\ line_program' = IF r.ok THEN r.program ELSE <<>>
    /\ UNCHANGED <<header, entry, layout, data, lines_vars, file_iter, file_out, file_info, cross_vars, scan_vars>>

\* let files = program.files();
CallFiles ==
    /\ pc = "program"
    /\ pc' = "files"
    /\ file_iter' = LineProgram_files(line_program)
    /\ UNCHANGED <<header, entry, layout, data, lines_vars, line_program, file_out, file_info, cross_vars, scan_vars>>

\* files.next()
FileIteratorNext ==
    /\ pc = "files"
    /\ LET r == FileIterator_next(file_iter)
       IN  /\ file_iter' = r.buf
           /\ file_out' = IF r.tag = "Some"
                          THEN Append(file_out, [offset |-> file_iter.pos, info |-> r.item])
                          ELSE file_out
           /\ pc' = CASE r.tag = "Some" -> "files"
                      [] r.tag = "None" -> "listed"
                      [] OTHER -> "error"
    /\ UNCHANGED <<header, entry, layout, data, lines_vars, line_program, file_info, cross_vars, scan_vars>>

\* program.get_file_info(FileIndex(index))
GetFileInfo(index) ==
    /\ pc = "listed"
    /\ file_info' = <<index, LineProgram_get_file_info(line_program, index)>>
    /\ UNCHANGED <<pc, header, entry, layout, data, lines_vars, line_program,
                   file_iter, file_out, cross_vars, scan_vars>>

NextFiles ==
    \/ \E e \in ChecksumChoices(Len(layout.entries)) : WriteChecksum(e)
    \/ ParseProgram
    \/ CallFiles
    \/ FileIteratorNext
    \/ \E i \in 0 .. Len(TableOf(layout)) + MaxPastEnd : GetFileInfo(U32(i))

SpecFiles == InitFiles /\ [][NextFiles]_vars

-----------------------------------------------------------------------------
(* Cross-module exports                                                    *)

RawCrossScopeExport_SIZE == 8           \* mem::size_of::<RawCrossScopeExport>()

InvalidStreamLength == <<"InvalidStreamLength", "DebugCrossScopeExportsSubsection">>

\* DebugCrossScopeExportsSubsection::parse: the bytes seen as an array of
\* RawCrossScopeExport, refused when their length is no multiple of the
\* record size.
DebugCrossScopeExportsSubsection_parse(d) ==
    IF Len(d) % RawCrossScopeExport_SIZE # 0
    THEN [ok |-> FALSE, err |-> InvalidStreamLength]
    ELSE [ok |-> TRUE,
          section |-> [raw_exports |-> d,
                       len |-> Len(d) \div RawCrossScopeExport_SIZE]]

DefaultExportsSubsection == [raw_exports |-> <<>>, len |-> 0]

\* A getter that decodes the field big-endian: the four bytes of `local`
\* read in the order opposite to the stored one.
RawLocalBigEndian(raw_exports, i) ==
    LET at == RawCrossScopeExport_SIZE * i + 1
    IN  <<raw_exports[at] * 256 + raw_exports[at + 1],
          raw_exports[at + 2] * 256 + raw_exports[at + 3]>>

\* RawCrossScopeExport::local of element i (from 0) of the array.
RawCrossScopeExport_local(raw_exports, i) ==
    ReadU32(raw_exports, RawCrossScopeExport_SIZE * i + 1)

\* RawCrossScopeExport::global of element i (from 0) of the array.
RawCrossScopeExport_global(raw_exports, i) ==
    ReadU32(raw_exports, RawCrossScopeExport_SIZE * i + 5)

\* CrossModuleExports::parse: the first CrossScopeExports subsection of the
\* module, an empty array when there is none.
CrossModuleExports_parse(d) ==
    LET found == FindSubsection(ParseBuffer(d), KindCrossScopeExports)
    IN  IF found.tag = "Err" THEN [ok |-> FALSE, err |-> found.err]
        ELSE IF found.tag = "None"
        THEN [ok |-> TRUE, exports |-> [section |-> DefaultExportsSubsection]]
        ELSE LET p == DebugCrossScopeExportsSubsection_parse(found.item.data)
             IN  IF ~p.ok THEN [ok |-> FALSE, err |-> p.err]
                 ELSE [ok |-> TRUE, exports |-> [section |-> p.section]]

\* exports.binary_search_by_key(&local, |r| r.local()) as the standard
\* library runs it: an empty array gives Err(0); while the window
\* [base, base + size) holds more than one element it is cut to the half that
\* starts at its middle unless the middle key is greater than `local`, also
\* after a match; the one element left decides, Ok(base) when its key is
\* `local`, else Err of the insertion point.
RECURSIVE BinarySearchByLocal(_, _, _, _)
BinarySearchByLocal(raw_exports, local, base, size) ==
    IF size = 0 THEN <<"Err", 0>>
    ELSE IF size > 1
    THEN LET half == size \div 2
             mid == base + half
         IN  BinarySearchByLocal(raw_exports, local,
                 IF U32Lt(local, RawCrossScopeExport_local(raw_exports, mid))
                 THEN base ELSE mid,
                 size - half)
    ELSE LET key == RawCrossScopeExport_local(raw_exports, base)
         IN  IF key = local THEN <<"Ok", base>>
             ELSE <<"Err", base + (IF U32Lt(key, local) THEN 1 ELSE 0)>>

\* CrossModuleExports::resolve_global
CrossModuleExports_resolve_global(x, local) ==
    LET found == BinarySearchByLocal(x.section.raw_exports, local, 0, x.section.len)
    IN  IF found[1] = "Ok"
        THEN <<"Ok", Some(RawCrossScopeExport_global(x.section.raw_exports, found[2]))>>
        ELSE <<"Ok", None>>

-----------------------------------------------------------------------------
(* Cross-module imports                                                    *)

MaskModule == <<32752, 0>>              \* 0x7ff0_0000
MaskImport == <<15, 65535>>             \* 0x000f_ffff

\* ItemIndex::is_cross_module: the reserved high bit of the index is set.
ItemIndex_is_cross_module(raw_index) == U32And(raw_index, MaskTop) # Zero32

\* The alignment of u32, which slice::from_raw_parts requires of the pointer
\* it is given.
ALIGN_OF_U32 == 4

\* The outcome of a process that a non-unwinding panic stopped.
ProcessAborted == [ok |-> FALSE, abort |-> TRUE]

\* CrossScopeImportModuleIter::next over a buffer whose first byte is at
\* address `addr` (modulo 4).  The import array is built from the bytes that
\* follow the count, in place: at an address that is no multiple of 4 the
\* build with debug assertions aborts, the build without them returns the
\* module, whatever the count.
CrossScopeImportModuleIter_next(buf, addr, debug) ==
    IF PBIsEmpty(buf) THEN [tag |-> "None", buf |-> buf]
    ELSE LET n == PBTake(buf, 4)
         IN  IF ~n.ok THEN [tag |-> "Err", err |-> n.err]
             ELSE LET c == PBTake(n.buf, 4)
                  IN  IF ~c.ok THEN [tag |-> "Err", err |-> c.err]
                      ELSE LET count == ReadU32(c.bytes, 1)
                               t == PBTakeWords(c.buf, count)
                           IN  IF ~t.ok THEN [tag |-> "Err", err |-> t.err]
                               ELSE IF debug /\ (addr + c.buf.pos) % ALIGN_OF_U32 # 0
                               THEN [tag |-> "Abort"]
                               ELSE [tag |-> "Some", buf |-> t.buf,
                                     item |-> [name |-> ReadU32(n.bytes, 1),
                                               imports |-> t.bytes,
                                               len |-> AsUsize(count)]]

\* section.imports().collect(); CollectedImportModule folds the result m of
\* one call of next().
RECURSIVE CollectImportModules(_, _, _, _)
CollectedImportModule(m, addr, debug, acc) ==
    IF m.tag = "Err" THEN [ok |-> FALSE, err |-> m.err]
    ELSE IF m.tag = "Abort" THEN ProcessAborted
    ELSE IF m.tag = "None" THEN [ok |-> TRUE, modules |-> acc]
    ELSE CollectImportModules(m.buf, addr, debug, Append(acc, m.item))

CollectImportModules(buf, addr, debug, acc) ==
    CollectedImportModule(CrossScopeImportModuleIter_next(buf, addr, debug),
                          addr, debug, acc)

\* The CrossModuleImports of the collected modules c.
ImportsCollected(c) ==
    IF c = ProcessAborted THEN ProcessAborted
    ELSE IF ~c.ok THEN [ok |-> FALSE, err |-> c.err]
    ELSE [ok |-> TRUE, imports |-> [modules |-> c.modules]]

\* The CrossModuleImports of the subsection that the scan found.
ImportsFound(found, addr, debug) ==
    IF found.tag = "Err" THEN [ok |-> FALSE, err |-> found.err]
    ELSE IF found.tag = "None" THEN [ok |-> TRUE, imports |-> [modules |-> <<>>]]
    ELSE ImportsCollected(CollectImportModules(ParseBuffer(found.item.data),
                                               addr + found.at, debug, <<>>))

\* CrossModuleImports::parse of the module slice at address `addr`
\* (modulo 4): the modules of the first CrossScopeImports subsection, none
\* when the module has no such subsection.
CrossModuleImports_parse(d, addr, debug) ==
    ImportsFound(FindSubsection(ParseBuffer(d), KindCrossScopeImports), addr, debug)

\* A getter that wraps an import number around the module's import count.
GetWrappingAround(module, import) ==
    IF module.len = 0 THEN None
    ELSE Some(ReadU32(module.imports, 4 * (import % module.len) + 1))

\* CrossScopeImportModule::get
CrossScopeImportModule_get(module, import) ==
    IF import >= module.len THEN None
    ELSE Some(ReadU32(module.imports, 4 * import + 1))

\* The two fields of a cross module reference as resolve_import takes them.
ModuleIndexOf(raw_index) == AsUsize(U32And(raw_index, MaskModule))
ImportIndexOf(raw_index) == AsUsize(U32And(raw_index, MaskImport))

\* CrossModuleImports::resolve_import
CrossModuleImports_resolve_import(x, raw_index) ==
    IF ~ItemIndex_is_cross_module(raw_index)
    THEN <<"Err", <<"NotACrossModuleRef", raw_index>>>>
    ELSE LET module_index == ModuleIndexOf(raw_index)
             import_index == ImportIndexOf(raw_index)
         IN  IF module_index >= Len(x.modules)
             THEN <<"Err", <<"CrossModuleRefNotFound", raw_index>>>>
             ELSE LET module == x.modules[module_index + 1]
                      local_index == CrossScopeImportModule_get(module, import_index)
                  IN  IF local_index = None
                      THEN <<"Err", <<"CrossModuleRefNotFound", raw_index>>>>
                      ELSE <<"Ok", [module |-> module.name, local |-> local_index[1]]>>

-----------------------------------------------------------------------------
(* The export table and its lookups (SpecExports)                          *)

MaxExports == 3

\* The local indexes a producer exports, listed ascending: Type-space and
\* Id-space (top bit set) ones, of one to four significant bytes.
ExportLocals ==
    <<U32(2), U32(256), <<1, 5>>, <<32768, 1>>, <<32768, 256>>, <<65535, 65534>>>>

\* The global index exported for the k-th local by the entry at position
\* `at` (from 0) of the array.
ExportGlobal(k, at) == <<IF k > 3 THEN 32768 ELSE 0, 4096 + 257 * k + 16 * at>>

\* The local indexes looked up: the exported ones, one below all of them, one
\* between two of them and one above all of them.
LookupLocals ==
    {ExportLocals[k] : k \in 1 .. Len(ExportLocals)}
        \cup {Zero32, U32(3), <<65535, 65535>>}

EncodeExports(es) ==
    Flatten([i \in 1 .. Len(es) |-> U32Bytes(es[i].local) \o U32Bytes(es[i].global)])

\* The module: a Symbols subsection when `lead`, then the CrossScopeExports
\* subsection when `present`.
EncodeExportsModule(m) ==
    (IF m.lead THEN EncodeSubsection(KindSymbols, <<1, 2, 3, 4>>) ELSE <<>>)
    \o (IF m.present
        THEN EncodeSubsection(KindCrossScopeExports, EncodeExports(m.entries))
        ELSE <<>>)

InitExports ==
    /\ pc = "start"
    /\ header = <<>>
    /\ entry = None
    /\ layout \in [lead : BOOLEAN, present : BOOLEAN, entries : {<<>>}]
    /\ data = EncodeExportsModule(layout)
    /\ LinesIdle
    /\ FilesIdle
    /\ CrossIdle
    /\ ScanIdle

\* The producer appends the export of the k-th local.  parse checks no
\* order: the array may repeat a local or hold locals out of order.
WriteExport(k) ==
    /\ pc = "start"
    /\ layout.present
    /\ Len(layout.entries) < MaxExports
    /\ layout' = [layout EXCEPT
                    !.entries = Append(@, [local |-> ExportLocals[k],
                                           global |-> ExportGlobal(k, Len(@))])]
    /\ data' = EncodeExportsModule(layout')
    /\ UNCHANGED <<pc, header, entry, lines_vars, files_vars, cross_vars, scan_vars>>

\* let exports = CrossModuleExports::parse(data)?;
ParseExports ==
    /\ pc = "start"
    /\ LET p == CrossModuleExports_parse(data)
       IN  IF p.ok THEN pc' = "exports" /\ exports' = p.exports
           ELSE pc' = "failed" /\ exports' = <<p.err>>
    /\ UNCHANGED <<header, entry, layout, data, lines_vars, files_vars,
                   imports, resolved, address, scan_vars>>

\* exports.resolve_global(Local(local))
ResolveGlobal(local) ==
    /\ pc = "exports"
    /\ resolved' = [index |-> local,
                    result |-> CrossModuleExports_resolve_global(exports, local)]
    /\ UNCHANGED <<pc, header, entry, layout, data, lines_vars, files_vars,
                   exports, imports, address, scan_vars>>

NextExports ==
    \/ \E k \in 1 .. Len(ExportLocals) : WriteExport(k)
    \/ ParseExports
    \/ \E local \in LookupLocals : ResolveGlobal(local)

SpecExports == InitExports /\ [][NextExports]_vars

-----------------------------------------------------------------------------
(* The import table and its lookups (SpecImports)                          *)

MaxImportItems == 4

\* The addresses, modulo 4, a module's byte slice may be at: a slice of a
\* stream's bytes starts wherever the caller cut it.
Addresses == 0 .. ALIGN_OF_U32 - 1

\* The name reference of the k-th import module (from 0) and the values a
\* producer stores as its imports.
ImportModuleName(k) == U32(100 * k + 77)
ImportValues == {U32(4097), <<32768, 258>>}

RECURSIVE ImportItems(_)
ImportItems(ms) ==
    IF ms = <<>> THEN 0 ELSE 1 + Len(Head(ms).imports) + ImportItems(Tail(ms))

EncodeImportModule(m) ==
    U32Bytes(m.name) \o U32Bytes(U32(Len(m.imports)))
        \o Flatten([i \in 1 .. Len(m.imports) |-> U32Bytes(m.imports[i])])

EncodeImports(ms) == Flatten([i \in 1 .. Len(ms) |-> EncodeImportModule(ms[i])])

\* The module: a Symbols subsection when `lead`, then the CrossScopeImports
\* subsection when `present`.
EncodeImportsModule(m) ==
    (IF m.lead THEN EncodeSubsection(KindSymbols, <<1, 2, 3, 4>>) ELSE <<>>)
    \o (IF m.present
        THEN EncodeSubsection(KindCrossScopeImports, EncodeImports(m.modules))
        ELSE <<>>)

\* A reference index of the given fields: bit 31, bits 20..30 and bits 0..19.
ReferenceIndex(cross, m, s) ==
    <<(IF cross THEN 32768 ELSE 0) + 16 * m + s \div Half, s % Half>>

InitImports ==
    /\ pc = "start"
    /\ header = <<>>
    /\ entry = None
    /\ layout \in [lead : BOOLEAN, present : BOOLEAN, modules : {<<>>}]
    /\ data = EncodeImportsModule(layout)
    /\ call = <<>>
    /\ debug_build \in BOOLEAN
    /\ line_iter = <<>>
    /\ line_out = <<>>
    /\ line_last = <<>>
    /\ FilesIdle
    /\ exports = <<>>
    /\ imports = <<>>
    /\ resolved = <<>>
    /\ address \in Addresses
    /\ ScanIdle

\* The producer appends an import module without imports.
WriteImportModule ==
    /\ pc = "start"
    /\ layout.present
    /\ ImportItems(layout.modules) < MaxImportItems
    /\ layout' = [layout EXCEPT !.modules =
                    Append(@, [name |-> ImportModuleName(Len(@)), imports |-> <<>>])]
    /\ data' = EncodeImportsModule(layout')
    /\ UNCHANGED <<pc, header, entry, lines_vars, files_vars, cross_vars, scan_vars>>

\* The producer appends an import to the last import module.
WriteImport(v) ==
    /\ pc = "start"
    /\ layout.modules # <<>>
    /\ ImportItems(layout.modules) < MaxImportItems
    /\ layout' = [layout EXCEPT !.modules[Len(layout.modules)].imports = Append(@, v)]
    /\ data' = EncodeImportsModule(layout')
    /\ UNCHANGED <<pc, header, entry, lines_vars, files_vars, cross_vars, scan_vars>>

\* What the caller is left with after the result p of parse.
ImportsParsed(p) ==
    IF p.ok THEN pc' = "imports" /\ imports' = p.imports
    ELSE IF p = ProcessAborted THEN pc' = "aborted" /\ imports' = <<>>
    ELSE pc' = "failed" /\ imports' = <<p.err>>

\* let imports = CrossModuleImports::parse(data)?;
ParseImports ==
    /\ pc = "start"
    /\ ImportsParsed(CrossModuleImports_parse(data, address, debug_build))
    /\ UNCHANGED <<header, entry, layout, data, lines_vars, files_vars,
                   exports, resolved, address, scan_vars>>

\* imports.resolve_import(index)
ResolveImport(raw_index) ==
    /\ pc = "imports"
    /\ resolved' = [index |-> raw_index,
                    result |-> CrossModuleImports_resolve_import(imports, raw_index)]
    /\ UNCHANGED <<pc, header, entry, layout, data, lines_vars, files_vars,
                   exports, imports, address, scan_vars>>

NextImports ==
    \/ WriteImportModule
    \/ \E v \in ImportValues : WriteImport(v)
    \/ ParseImports
    \/ \E cross \in BOOLEAN, m \in 0 .. MaxImportItems, s \in 0 .. MaxImportItems :
            ResolveImport(ReferenceIndex(cross, m, s))

SpecImports == InitImports /\ [][NextImports]_vars

-----------------------------------------------------------------------------
(* Properties of LineNumberHeader::parse (SpecParse)                       *)

Parsed == pc = "parsed"

\* The end line the format defines: the bits of start_line above bit 6 OR the
\* delta field (bits 24..30), plus 128 when that is below start_line.
FormatEndLine(w) ==
    LET start == AsUsize(FieldStart(w))
        joined == (start - (start % 128)) + FieldDelta(w)
    IN  U32(IF joined < start THEN joined + 128 ELSE joined)

\* C1: for every packed word whose low 24 bits are no sentinel, parse returns
\* a Number entry with start_line = the low 24 bits and end_line = (start_line
\* with its low 7 bits cleared) OR the delta of bits 24..30, plus 128 if that
\* is below start_line.
C1_EndLineFromDeltaField ==
    (Parsed /\ ~IsSentinel(header.flags)) =>
        /\ entry[1].tag = "Number"
        /\ entry[1].start_line = FieldStart(header.flags)
        /\ entry[1].end_line = FormatEndLine(header.flags)

\* C2: every Number entry parse returns has end_line >= start_line and
\* end_line - start_line < 128.
C2_EndLineWithin128 ==
    (Parsed /\ entry[1].tag = "Number") =>
        /\ U32Le(entry[1].start_line, entry[1].end_line)
        /\ AsUsize(entry[1].end_line) - AsUsize(entry[1].start_line) < 128

\* A Number entry was returned for a word whose delta field is below the low
\* 7 bits of its start line, past the first 128 lines.
C2_Witness ==
    /\ Parsed
    /\ entry[1].tag = "Number"
    /\ AsUsize(entry[1].start_line) > 128
    /\ FieldDelta(header.flags) < AsUsize(FieldStart(header.flags)) % 128

\* C3: parse returns a Marker entry (DoNotStepOnto for 0xfeefee, DoNotStepInto
\* for 0xf00f00, carrying the record's offset) if and only if the low 24 bits
\* are one of the two sentinels, whatever bits 24..31 are; every other word
\* decodes to a Number entry.
C3_MarkerIffSentinel ==
    Parsed =>
        /\ entry[1].tag \in {"Marker", "Number"}
        /\ (entry[1].tag = "Marker") <=> IsSentinel(header.flags)
        /\ FieldStart(header.flags) = DoNotStepOntoLine =>
               entry[1] = [tag |-> "Marker", offset |-> header.offset,
                           kind |-> "DoNotStepOnto"]
        /\ FieldStart(header.flags) = DoNotStepIntoLine =>
               entry[1] = [tag |-> "Marker", offset |-> header.offset,
                           kind |-> "DoNotStepInto"]

\* A marker was returned for a sentinel word with bits set in 24..31.
C3_Witness ==
    /\ Parsed
    /\ entry[1].tag = "Marker"
    /\ entry[1].kind = "DoNotStepInto"
    /\ header.flags[1] \div 256 = 133


-----------------------------------------------------------------------------
(* Properties of LineIterator (SpecLines)                                  *)

\* What the module's contents say the line info of record l of block blk of
\* subsection sec is.  line_end is the end line as decoded from the record.
ExpectedInfo(sec, blk, l) ==
    [offset |-> [offset |-> U32(AsUsize(sec.offset.offset) + AsUsize(l.offset)),
                 section |-> sec.offset.section],
     length |-> None,
     file_index |-> blk.file_index,
     line_start |-> FieldStart(l.flags),
     line_end |-> LineNumberHeader_parse([offset |-> l.offset, flags |-> l.flags]).end_line,
     kind |-> IF FieldStatement(l.flags) THEN "Statement" ELSE "Expression",
     column_start |-> IF sec.cols THEN Some(U32(l.start_column)) ELSE None,
     column_end |-> IF sec.cols THEN Some(U32(l.end_column)) ELSE None]

ExpectedOfBlock(sec, blk) ==
    LET numbers == SelectSeq(blk.lines, LAMBDA l : ~IsSentinel(l.flags))
    IN  [i \in 1 .. Len(numbers) |-> ExpectedInfo(sec, blk, numbers[i])]

ExpectedOfSection(sec) ==
    Flatten([i \in 1 .. Len(sec.blocks) |-> ExpectedOfBlock(sec, sec.blocks[i])])

\* The line infos of every subsection of kind Lines, in stored order.
ExpectedLines(m) ==
    Flatten([i \in 1 .. Len(m) |->
                 IF m[i].kind = KindLines THEN ExpectedOfSection(m[i]) ELSE <<>>])

\* The line infos of the first subsection of kind Lines at header offset o.
LinesSectionsAt(m, o) == { i \in 1 .. Len(m) : m[i].kind = KindLines /\ m[i].offset = o }

ExpectedAtOffset(m, o) ==
    LET at == LinesSectionsAt(m, o)
    IN  IF at = {} THEN <<>>
        ELSE ExpectedOfSection(m[CHOOSE i \in at : \A j \in at : i <= j])

ExpectedOfCall ==
    IF call = <<"lines">> THEN ExpectedLines(layout)
    ELSE ExpectedAtOffset(layout, call[2])

\* A line info without its columns.
Core(info) ==
    [offset |-> info.offset, length |-> info.length, file_index |-> info.file_index,
     line_start |-> info.line_start, line_end |-> info.line_end, kind |-> info.kind]

CoreOf(infos) == [i \in 1 .. Len(infos) |-> Core(infos[i])]

IsPrefix(s, t) == Len(s) <= Len(t) /\ s = SubSeq(t, 1, Len(s))

\* The iterator has returned a prefix of `expected`, all of it once it has
\* returned end of sequence, and neither an error nor a panic.
YieldsExactly(expected) ==
    /\ pc \in {"iter", "done"}
    /\ IsPrefix(CoreOf(line_out), CoreOf(expected))
    /\ pc = "done" => Len(line_out) = Len(expected)

HasMarker(sec) ==
    \E b \in 1 .. Len(sec.blocks) : \E i \in 1 .. Len(sec.blocks[b].lines) :
        IsSentinel(sec.blocks[b].lines[i].flags)

\* C4: for every line info LineIterator emits from a block, column_start and
\* column_end are None if the subsection's flags declare no columns, and are
\* otherwise the start and end column of the column record at the line
\* record's position in the block, also when markers precede it.
C4_ColumnsPairWithLines ==
    call # <<>> =>
        \A i \in 1 .. Len(line_out) :
            i <= Len(ExpectedOfCall) =>
                /\ line_out[i].column_start = ExpectedOfCall[i].column_start
                /\ line_out[i].column_end = ExpectedOfCall[i].column_end

\* C5: LineProgram::lines yields one line info per Number entry of every
\* Lines subsection, in subsection, block, record order, none for markers or
\* for subsections of other kinds; each has length None, offset = the
\* subsection's header offset plus the record's offset, the block's file
\* index, and line_start, line_end and kind as decoded from the record.
C5_LinesYieldsNumberEntries ==
    call = <<"lines">> => YieldsExactly(ExpectedLines(layout))

\* Subsection sec is a Lines subsection that holds a Number entry.
YieldsRecord(sec) == sec.kind = KindLines /\ ExpectedOfSection(sec) # <<>>

\* lines() ran to its end over a module of two Lines subsections at different
\* header offsets that each hold a Number entry, and returned the record of
\* the first subsection before the record of the second.
C5_Witness ==
    /\ pc = "done"
    /\ call = <<"lines">>
    /\ Len(layout) = 2
    /\ YieldsRecord(layout[1]) /\ YieldsRecord(layout[2])
    /\ layout[1].offset # layout[2].offset
    /\ Len(line_out) = 2
    /\ Core(line_out[1]) = Core(ExpectedOfSection(layout[1])[1])
    /\ Core(line_out[2]) = Core(ExpectedOfSection(layout[2])[1])

\* C6: lines_at_offset(o) yields the line infos of the blocks of the first
\* Lines subsection whose header offset is o, in order, and of no other
\* subsection; it yields nothing when no Lines subsection is at o.
C6_LinesAtOffsetYieldsFirstMatch ==
    (call # <<>> /\ call[1] = "lines_at_offset") =>
        YieldsExactly(ExpectedAtOffset(layout, call[2]))

\* lines_at_offset ran to its end and returned a line info, in a module with
\* a Lines subsection at another offset before the match.
C6_Witness ==
    /\ pc = "done"
    /\ call # <<>> /\ call[1] = "lines_at_offset"
    /\ Len(line_out) >= 1
    /\ \E i, j \in 1 .. Len(layout) :
           /\ i < j
           /\ layout[i].kind = KindLines /\ layout[i].offset # call[2]
           /\ j \in LinesSectionsAt(layout, call[2])


-----------------------------------------------------------------------------
(* Properties of the file checksum table (SpecFiles)                       *)

Looked == file_info # <<>>

\* C7: for every entry that full iteration (LineProgram::files) produces from
\* a well-formed table, get_file_info with the byte offset at which the
\* entry's header starts returns a record with the same name reference and
\* the same checksum variant and bytes.
C7_LookupByOffsetRoundTrip ==
    Looked =>
        \A i \in 1 .. Len(file_out) :
            U32(file_out[i].offset) = file_info[1] =>
                file_info[2] = <<"Ok", file_out[i].info>>

\* get_file_info was called with the offset of the last of several entries,
\* one that carries checksum bytes.
C7_Witness ==
    /\ Looked
    /\ Len(file_out) >= 2
    /\ U32(file_out[Len(file_out)].offset) = file_info[1]
    /\ file_out[Len(file_out)].offset > 0
    /\ file_out[Len(file_out)].info.checksum[1] = "Sha1"

\* C8: get_file_info with an offset equal to or greater than the table's byte
\* length (any offset when the table is empty or missing) returns the error
\* InvalidFileChecksumOffset carrying that offset.
C8_OutOfRangeIsInvalidOffset ==
    (Looked /\ AsUsize(file_info[1]) >= Len(line_program.file_checksums)) =>
        file_info[2] = <<"Err", <<"InvalidFileChecksumOffset", file_info[1]>>>>

-----------------------------------------------------------------------------
(* Properties of the cross-module tables (SpecExports, SpecImports)        *)

\* The export entries the producer wrote into the module.
ExportsWritten == IF layout.present THEN layout.entries ELSE <<>>

\* The positions at which a local index appears in the written exports.
ExportHits(local) ==
    {i \in 1 .. Len(ExportsWritten) : ExportsWritten[i].local = local}

\* The written exports are sorted ascending by local with distinct locals.
SortedByDistinctLocal ==
    \A i \in 1 .. Len(ExportsWritten) - 1 :
        U32Lt(ExportsWritten[i].local, ExportsWritten[i + 1].local)

\* C9: over an export array sorted ascending by local with distinct locals,
\* resolve_global(v) returns Ok(Some(g)) with g the global paired with v when
\* v appears in the array and Ok(None) when it does not (below the smallest,
\* above the largest or between two entries); it never returns an error.
C9_ResolveGlobalFindsPairedGlobal ==
    (pc = "exports" /\ resolved # <<>> /\ SortedByDistinctLocal) =>
        resolved.result =
            IF ExportHits(resolved.index) = {}
            THEN <<"Ok", None>>
            ELSE <<"Ok", Some(ExportsWritten[CHOOSE i \in ExportHits(resolved.index) : TRUE].global)>>

\* resolve_global found the last of three exports, an Id-space local, and
\* returned the global paired with it.
C9_Witness ==
    /\ pc = "exports"
    /\ resolved # <<>>
    /\ Len(ExportsWritten) = 3
    /\ SortedByDistinctLocal
    /\ resolved.index = ExportsWritten[3].local
    /\ resolved.index[1] >= 32768
    /\ resolved.result = <<"Ok", Some(ExportsWritten[3].global)>>

\* The import modules the producer wrote into the module.
ImportsWritten == IF layout.present THEN layout.modules ELSE <<>>

\* The module-selector field (bits 20..30) and the import-slot field
\* (bits 0..19) of a raw index, read as numbers.
SelectorField(raw_index) == (raw_index[1] % 32768) \div 16
SlotField(raw_index) == (raw_index[1] % 16) * Half + raw_index[2]

\* C10: for a cross-module reference whose module selector m (bits 20..30)
\* and import slot s (bits 0..19) satisfy m < number of import modules and
\* s < number of imports of module m, resolve_import returns the name of the
\* m-th import module with the value of its s-th import as the local index.
C10_ResolveImportSelectsModuleAndSlot ==
    (pc = "imports" /\ resolved # <<>>) =>
        LET m == SelectorField(resolved.index)
            s == SlotField(resolved.index)
        IN  (/\ resolved.index[1] >= 32768
             /\ m < Len(ImportsWritten)
             /\ s < Len(ImportsWritten[m + 1].imports)) =>
                resolved.result =
                    <<"Ok", [module |-> ImportsWritten[m + 1].name,
                             local |-> ImportsWritten[m + 1].imports[s + 1]]>>

\* C11: resolve_import returns NotACrossModuleRef with the raw index for
\* every index whose cross-module bit is unset, and CrossModuleRefNotFound
\* with the raw index for every cross-module index whose module selector is
\* not below the number of import modules or whose slot is not below the
\* selected module's import count.
C11_ResolveImportErrors ==
    (pc = "imports" /\ resolved # <<>>) =>
        LET m == SelectorField(resolved.index)
            s == SlotField(resolved.index)
        IN  /\ resolved.index[1] < 32768 =>
                resolved.result = <<"Err", <<"NotACrossModuleRef", resolved.index>>>>
            /\ (/\ resolved.index[1] >= 32768
                /\ \/ m >= Len(ImportsWritten)
                   \/ s >= Len(ImportsWritten[m + 1].imports)) =>
                resolved.result = <<"Err", <<"CrossModuleRefNotFound", resolved.index>>>>

\* resolve_import was given a cross-module index that selects the first of
\* two import modules and a slot past that module's imports.
C11_Witness ==
    /\ pc = "imports"
    /\ resolved # <<>>
    /\ resolved.index[1] >= 32768
    /\ Len(ImportsWritten) = 2
    /\ SelectorField(resolved.index) = 0
    /\ Len(ImportsWritten[1].imports) = 1
    /\ SlotField(resolved.index) = 1
    /\ resolved.result[1] = "Err"

-----------------------------------------------------------------------------
(* The subsection iterator over whole and cut slices (SpecSubsections)     *)

MaxChunks == 2

KindInlineeLines == U32(246)            \* 0xf6

\* The kinds a producer writes: recognised ones (the two ends of the
\* enumeration and one inside), the ignore tag, and unknown ones (next to
\* the enumeration, and the ignore bit on a recognised value).
ChunkKinds ==
    {KindSymbols, KindInlineeLines, KindCoffSymbolRva, DEBUG_S_IGNORE,
     U32(240), U32(254), <<32768, 242>>}

\* The bodies a producer writes: none, one byte, and eight bytes that read as
\* the header of an unknown kind.
ChunkBodies == {<<>>, <<7>>, U32Bytes(U32(240)) \o U32Bytes(Zero32)}

\* A chunk is a header and a body; its header declares `short` bytes more
\* than the body has.  A stub is the first bytes of a header.
Chunks == [kind : ChunkKinds, body : ChunkBodies, short : {0, 1}]
StubLengths == {1, 7}

EncodeChunk(c) ==
    IF c.kind = <<"stub">> THEN [i \in 1 .. c.short |-> 241]
    ELSE U32Bytes(c.kind) \o U32Bytes(U32(Len(c.body) + c.short)) \o c.body

EncodeChunks(cs) == Flatten([i \in 1 .. Len(cs) |-> EncodeChunk(cs[i])])

\* A chunk whose bytes are all there.
Whole(c) == c.kind # <<"stub">> /\ c.short = 0

InitSubsections ==
    /\ pc = "start"
    /\ header = <<>>
    /\ entry = None
    /\ layout = <<>>
    /\ data = <<>>
    /\ LinesIdle
    /\ FilesIdle
    /\ CrossIdle
    /\ ScanIdle

\* The producer appends a chunk; nothing follows a cut one.
WriteChunk(c) ==
    /\ pc = "start"
    /\ Len(layout) < MaxChunks
    /\ \A i \in 1 .. Len(layout) : Whole(layout[i])
    /\ layout' = Append(layout, c)
    /\ data' = EncodeChunks(layout')
    /\ UNCHANGED <<pc, header, entry, lines_vars, files_vars, cross_vars, scan_vars>>

\* let mut iter = DebugSubsectionIterator::new(data);
SubsectionIteratorNew ==
    /\ pc = "start"
    /\ pc' = "iterating"
    /\ iter' = [buf |-> ParseBuffer(data), result |-> <<>>]
    /\ UNCHANGED <<header, entry, layout, data, lines_vars, files_vars,
                   cross_vars, out, log>>

\* iter.next(), until it returns None or an error.
SubsectionIteratorNext ==
    /\ pc = "iterating"
    /\ LET r == DebugSubsectionIterator_next(iter.buf)
       IN  /\ log' = log \o TurnsOfNext(iter.buf)
           /\ IF r.tag = "Some"
              THEN /\ out' = Append(out, r.item)
                   /\ iter' = [buf |-> r.buf, result |-> <<>>]
                   /\ pc' = pc
              ELSE /\ out' = out
                   /\ iter' = [buf |-> r.buf,
                               result |-> IF r.tag = "None" THEN <<"None">>
                                          ELSE <<"Err", r.err>>]
                   /\ pc' = "done"
    /\ UNCHANGED <<header, entry, layout, data, lines_vars, files_vars, cross_vars>>

NextSubsections ==
    \/ \E c \in Chunks : WriteChunk(c)
    \/ \E n \in StubLengths : WriteChunk([kind |-> <<"stub">>, body |-> <<>>, short |-> n])
    \/ SubsectionIteratorNew
    \/ SubsectionIteratorNext

SpecSubsections == InitSubsections /\ [][NextSubsections]_vars


-----------------------------------------------------------------------------
(* Properties of DebugSubsectionIterator (SpecSubsections)                 *)

\* The kinds of the closed enumeration, 0xf1 to 0xfd.
Recognised(kind) == kind[1] = 0 /\ kind[2] >= 241 /\ kind[2] <= 253

Stub(c) == c.kind = <<"stub">>

\* A chunk the iterator passes: whole, and recognised or ignored.
Passable(c) == Whole(c) /\ (Recognised(c.kind) \/ c.kind = DEBUG_S_IGNORE)

\* The subsections of the recognised chunks among cs, in order.
RECURSIVE ExpectedSubsections(_)
ExpectedSubsections(cs) ==
    IF cs = <<>> THEN <<>>
    ELSE (IF Recognised(Head(cs).kind)
          THEN <<[kind |-> Head(cs).kind, data |-> Head(cs).body]>>
          ELSE <<>>) \o ExpectedSubsections(Tail(cs))

\* The byte offset at which the i-th chunk starts.
ChunkStart(i) == Len(EncodeChunks(SubSeq(layout, 1, i - 1)))

\* The chunks at which the iteration has to fail, and the first of them.
Failing == {i \in 1 .. Len(layout) : ~Passable(layout[i])}
FirstFailing == CHOOSE i \in Failing : \A j \in Failing : i <= j

Scanning == pc \in {"iterating", "done"}

\* C14: over a slice of well-formed subsections the iterator yields, in stored
\* order, exactly those of a kind in 0xf1..0xfd, each with the `length` bytes
\* after its header as data; an ignored subsection is not yielded but its
\* body is consumed, so every header is read right after the previous body.
C14_YieldsRecognisedInOrder ==
    (Scanning /\ Failing = {}) =>
        /\ IsPrefix(out, ExpectedSubsections(layout))
        /\ \A i \in 1 .. Len(log) : log[i].from = ChunkStart(i)
        /\ pc = "done" =>
            /\ out = ExpectedSubsections(layout)
            /\ iter.result = <<"None">>

\* The iteration ended over an ignored subsection with a body followed by a
\* recognised one, which it returned.
C14_Witness ==
    /\ pc = "done"
    /\ Failing = {}
    /\ Len(layout) = 2
    /\ layout[1].kind = DEBUG_S_IGNORE /\ Len(layout[1].body) = 8
    /\ Recognised(layout[2].kind) /\ layout[2].body # <<>>
    /\ Len(out) = 1

\* The error the first failing chunk gives when the body is taken before the
\* kind is looked at.
ErrorOfChunk(c) ==
    IF Stub(c) \/ c.short > 0 THEN UnexpectedEof
    ELSE <<"UnimplementedDebugSubsection", c.kind>>

Unknown(c) == ~Stub(c) /\ ~Recognised(c.kind) /\ c.kind # DEBUG_S_IGNORE

\* C15 as stated: UnimplementedDebugSubsection(kind) for a header whose kind
\* is neither in 0xf1..0xfd nor the ignore tag, a truncation error when fewer
\* than 8 bytes remain for a header or fewer than `length` for the body, and
\* no subsection for that header.
C15_ErrorsAsStated ==
    (pc = "done" /\ Failing # {}) =>
        LET c == layout[FirstFailing]
        IN  /\ Unknown(c) =>
                iter.result = <<"Err", <<"UnimplementedDebugSubsection", c.kind>>>>
            /\ (Stub(c) \/ c.short > 0) => iter.result = <<"Err", UnexpectedEof>>
            /\ out = ExpectedSubsections(SubSeq(layout, 1, FirstFailing - 1))

\* C15, amended: a truncation error when fewer than 8 bytes remain for a
\* header or fewer than `length` bytes remain for the body, whatever the
\* kind; UnimplementedDebugSubsection(kind) when the body is complete and the
\* kind is neither in 0xf1..0xfd nor the ignore tag; no subsection is
\* yielded for that header.
C15_TruncationBeforeKind ==
    (pc = "done" /\ Failing # {}) =>
        /\ iter.result = <<"Err", ErrorOfChunk(layout[FirstFailing])>>
        /\ out = ExpectedSubsections(SubSeq(layout, 1, FirstFailing - 1))

\* The iteration ended at a header of an unknown kind whose body is cut,
\* after it had returned a subsection.
C15_Witness ==
    /\ pc = "done"
    /\ Len(layout) = 2
    /\ Failing = {2}
    /\ Unknown(layout[2]) /\ layout[2].short > 0
    /\ Len(out) = 1
    /\ iter.result = <<"Err", UnexpectedEof>>

\* The turns that read a header.
HeaderReads == {i \in 1 .. Len(log) : log[i].to > log[i].from \/ log[i].tag # "Err"}

\* C19: iterating over a finite slice terminates: every header read advances
\* the cursor by at least 8 bytes whether the kind is recognised, ignored or
\* unknown, the cursor never exceeds the slice length, and the iteration
\* reaches end of sequence or an error after at most len/8 header reads.
\* Every call of next() either ends the iteration or leaves at least 8 bytes
\* fewer to read, so the calls end.
C19_IterationTerminates ==
    /\ [](Scanning =>
            /\ \A i \in 1 .. Len(log) :
                   /\ log[i].to <= Len(data)
                   /\ (log[i].tag # "Err" \/ Len(data) - log[i].from >= 8) =>
                          log[i].to - log[i].from >= 8
            /\ iter.buf.pos <= Len(data)
            /\ 8 * Cardinality(HeaderReads) <= Len(data))
    /\ [][pc = "iterating" =>
            \/ pc' = "done"
            \/ Len(data) - iter'.buf.pos <= Len(data) - iter.buf.pos - 8]_vars

\* The iteration ended with an error after it read the headers of an ignored
\* subsection and of one of unknown kind.
C19_Witness ==
    /\ pc = "done"
    /\ Len(log) = 2
    /\ log[1].tag = "Continue"
    /\ log[2].tag = "Err" /\ log[2].to - log[2].from >= 8
    /\ Unknown(layout[2])

-----------------------------------------------------------------------------
(* Inlinee lines                                                           *)

CV_INLINEE_SOURCE_LINE_SIGNATURE_EX == 1
DebugInlineeLinesHeader_SIZE == 4

\* A header that never declares extra files.
HasExtraFilesNever(h) == FALSE

\* DebugInlineeLinesHeader::has_extra_files
DebugInlineeLinesHeader_has_extra_files(h) ==
    h.signature = U32(CV_INLINEE_SOURCE_LINE_SIGNATURE_EX)

DefaultInlineeLinesHeader == [signature |-> Zero32]

\* InlineeSourceLine::try_from_ctx over the bytes `this`: the record and the
\* number of bytes it took.
InlineeSourceLine_try_from_ctx(this, h) ==
    LET f == PBTake(ParseBuffer(this), 12)
    IN  IF ~f.ok THEN [ok |-> FALSE, err |-> f.err]
        ELSE
            LET fixed == [inlinee |-> ReadU32(f.bytes, 1),
                          file_id |-> ReadU32(f.bytes, 5),
                          line |-> ReadU32(f.bytes, 9)]
            IN  IF ~DebugInlineeLinesHeader_has_extra_files(h)
                THEN [ok |-> TRUE, size |-> f.buf.pos,
                      item |-> fixed @@ [extra_files |-> <<>>]]
                ELSE
                    LET c == PBTake(f.buf, 4)
                    IN  IF ~c.ok THEN [ok |-> FALSE, err |-> c.err]
                        ELSE
                            LET file_count == ReadU32(c.bytes, 1)
                                x == PBTakeWords(c.buf, file_count)
                            IN  IF ~x.ok THEN [ok |-> FALSE, err |-> x.err]
                                ELSE [ok |-> TRUE, size |-> x.buf.pos,
                                      item |-> fixed @@ [extra_files |-> x.bytes]]

\* ParseBuffer::parse_with: the value is read from the bytes that remain and
\* the cursor moves by the size the reader reports.
PBParseWith(buf, h) ==
    LET r == InlineeSourceLine_try_from_ctx(
                 SubSeq(buf.data, buf.pos + 1, Len(buf.data)), h)
    IN  IF ~r.ok THEN [ok |-> FALSE, err |-> r.err]
        ELSE [ok |-> TRUE, buf |-> [buf EXCEPT !.pos = @ + r.size], item |-> r.item]

\* DebugInlineeLinesIterator::next
DebugInlineeLinesIterator_next(it) ==
    IF PBIsEmpty(it.buf) THEN [tag |-> "None", iter |-> it]
    ELSE LET r == PBParseWith(it.buf, it.header)
         IN  IF ~r.ok THEN [tag |-> "Err", iter |-> it, err |-> r.err]
             ELSE [tag |-> "Some", iter |-> [it EXCEPT !.buf = r.buf], item |-> r.item]

\* DebugInlineeLinesSubsection::parse
DebugInlineeLinesSubsection_parse(d) ==
    LET h == PBTake(ParseBuffer(d), DebugInlineeLinesHeader_SIZE)
    IN  IF ~h.ok THEN [ok |-> FALSE, err |-> h.err]
        ELSE [ok |-> TRUE,
              section |-> [header |-> [signature |-> ReadU32(h.bytes, 1)],
                           data |-> SubSeq(d, h.buf.pos + 1, Len(d))]]

DefaultInlineeLinesSubsection == [header |-> DefaultInlineeLinesHeader, data |-> <<>>]

\* DebugInlineeLinesSubsection::lines
DebugInlineeLinesSubsection_lines(section) ==
    [header |-> section.header, buf |-> ParseBuffer(section.data)]

\* InlineeIterator::parse: the records of the first InlineeLines subsection,
\* none when the module has no such subsection.
InlineeIterator_parse(d) ==
    LET found == FindSubsection(ParseBuffer(d), KindInlineeLines)
    IN  IF found.tag = "Err" THEN [ok |-> FALSE, err |-> found.err]
        ELSE IF found.tag = "None"
        THEN [ok |-> TRUE,
              inlinees |-> DebugInlineeLinesSubsection_lines(DefaultInlineeLinesSubsection)]
        ELSE LET p == DebugInlineeLinesSubsection_parse(found.item.data)
             IN  IF ~p.ok THEN [ok |-> FALSE, err |-> p.err]
                 ELSE [ok |-> TRUE,
                       inlinees |-> DebugInlineeLinesSubsection_lines(p.section)]

\* InlineeIterator::next
InlineeIterator_next(it) == DebugInlineeLinesIterator_next(it)

-----------------------------------------------------------------------------
(* The inlinee lines subsection and its iteration (SpecInlinees)           *)

MaxInlinees == 3

\* The signatures a producer writes: plain, extended, and another value.
InlineeSignatures == {0, CV_INLINEE_SOURCE_LINE_SIGNATURE_EX, 2}

\* The extra files of a record under the extended signature.
ExtraFileChoices == {<<>>, <<U32(216 + 26 * 256)>>, <<U32(888), <<7, 41968>>>>}

\* The k-th record (from 0) a producer writes, with the given extra files.
InlineeRecord(k, files) ==
    [inlinee |-> <<k, 4862 - k>>, file_id |-> U32(360 + 8 * k),
     line |-> <<IF k = 2 THEN 32768 ELSE 0, 24 + 4 * k>>, files |-> files]

EncodeInlinee(r, extended) ==
    U32Bytes(r.inlinee) \o U32Bytes(r.file_id) \o U32Bytes(r.line)
        \o (IF extended
            THEN U32Bytes(U32(Len(r.files)))
                     \o Flatten([i \in 1 .. Len(r.files) |-> U32Bytes(r.files[i])])
            ELSE <<>>)

EncodeInlineeLines(m) ==
    U32Bytes(U32(m.signature))
        \o Flatten([i \in 1 .. Len(m.records) |->
               EncodeInlinee(m.records[i],
                             m.signature = CV_INLINEE_SOURCE_LINE_SIGNATURE_EX)])

\* The module: a Symbols subsection when `lead`, then the InlineeLines
\* subsection when `present`.
EncodeInlineesModule(m) ==
    (IF m.lead THEN EncodeSubsection(KindSymbols, <<1, 2, 3, 4>>) ELSE <<>>)
    \o (IF m.present
        THEN EncodeSubsection(KindInlineeLines, EncodeInlineeLines(m))
        ELSE <<>>)

InitInlinees ==
    /\ pc = "start"
    /\ header = <<>>
    /\ entry = None
    /\ layout \in [lead : BOOLEAN, present : BOOLEAN, signature : InlineeSignatures,
                   records : {<<>>}]
    /\ data = EncodeInlineesModule(layout)
    /\ LinesIdle
    /\ FilesIdle
    /\ CrossIdle
    /\ ScanIdle

\* The producer appends a record; it has extra files only under the extended
\* signature.
WriteInlinee(files) ==
    /\ pc = "start"
    /\ layout.present
    /\ Len(layout.records) < MaxInlinees
    /\ files # <<>> => layout.signature = CV_INLINEE_SOURCE_LINE_SIGNATURE_EX
    /\ layout' = [layout EXCEPT !.records =
                    Append(@, InlineeRecord(Len(layout.records), files))]
    /\ data' = EncodeInlineesModule(layout')
    /\ UNCHANGED <<pc, header, entry, lines_vars, files_vars, cross_vars, scan_vars>>

\* let mut inlinees = InlineeIterator::parse(data)?;
InlineeIteratorParse ==
    /\ pc = "start"
    /\ LET p == InlineeIterator_parse(data)
       IN  IF p.ok
           THEN pc' = "iterating" /\ iter' = [inlinees |-> p.inlinees, result |-> <<>>]
           ELSE pc' = "failed" /\ iter' = [result |-> <<"Err", p.err>>]
    /\ UNCHANGED <<header, entry, layout, data, lines_vars, files_vars,
                   cross_vars, out, log>>

\* inlinees.next(), until it returns None or an error.
InlineeIteratorNext ==
    /\ pc = "iterating"
    /\ LET r == InlineeIterator_next(iter.inlinees)
       IN  IF r.tag = "Some"
           THEN /\ out' = Append(out, r.item)
                /\ log' = Append(log, [from |-> iter.inlinees.buf.pos,
                                       to |-> r.iter.buf.pos])
                /\ iter' = [inlinees |-> r.iter, result |-> <<>>]
                /\ pc' = pc
           ELSE /\ out' = out
                /\ log' = log
                /\ iter' = [inlinees |-> r.iter,
                            result |-> IF r.tag = "None" THEN <<"None">>
                                       ELSE <<"Err", r.err>>]
                /\ pc' = "done"
    /\ UNCHANGED <<header, entry, layout, data, lines_vars, files_vars, cross_vars>>

NextInlinees ==
    \/ \E files \in ExtraFileChoices : WriteInlinee(files)
    \/ InlineeIteratorParse
    \/ InlineeIteratorNext

SpecInlinees == InitInlinees /\ [][NextInlinees]_vars

-----------------------------------------------------------------------------
(* Properties of the inlinee lines decoder (SpecInlinees)                  *)

InlineesWritten == IF layout.present THEN layout.records ELSE <<>>

Extended == layout.present /\ layout.signature = CV_INLINEE_SOURCE_LINE_SIGNATURE_EX

\* The record a stored record decodes to.
ExpectedInlinee(r) ==
    [inlinee |-> r.inlinee, file_id |-> r.file_id, line |-> r.line,
     extra_files |-> Flatten([i \in 1 .. Len(r.files) |-> U32Bytes(r.files[i])])]

\* The bytes a stored record takes.
StoredSize(r) == IF Extended THEN 16 + 4 * Len(r.files) ELSE 12

RECURSIVE StoredStart(_)
StoredStart(i) ==
    IF i = 1 THEN 0 ELSE StoredStart(i - 1) + StoredSize(InlineesWritten[i - 1])

\* C12: decoding an inlinee lines subsection yields the records in stored
\* order until the buffer is empty: under a signature that is not the
\* extended one every record is 12 bytes (inlinee, file, line) and has no
\* extra files; under the extended signature a u32 file_count and
\* 4*file_count bytes follow, which become the record's extra_files, and the
\* next record starts right after them.
C12_InlineesInStoredOrder ==
    pc \in {"iterating", "done"} =>
        /\ IsPrefix(out, [i \in 1 .. Len(InlineesWritten) |->
                            ExpectedInlinee(InlineesWritten[i])])
        /\ \A i \in 1 .. Len(log) :
               /\ log[i].from = StoredStart(i)
               /\ log[i].to - log[i].from = StoredSize(InlineesWritten[i])
        /\ pc = "done" =>
               /\ Len(out) = Len(InlineesWritten)
               /\ iter.result = <<"None">>

\* The iteration ended over an extended subsection of three records, the
\* first with two extra files and the second with none.
C12_Witness ==
    /\ pc = "done"
    /\ Extended
    /\ Len(out) = 3
    /\ Len(out[1].extra_files) = 8
    /\ out[2].extra_files = <<>>
    /\ out[3].line[1] = 32768

-----------------------------------------------------------------------------
(* The decode entry points over whole and cut modules (SpecEntry)          *)

MaxParts == 3

UnknownKind == U32(240)                 \* 0xf0, next to the enumeration

PartKinds ==
    {KindSymbols, KindLines, KindFileChecksums, KindInlineeLines,
     KindCrossScopeImports, KindCrossScopeExports, DEBUG_S_IGNORE, UnknownKind}

\* The one line record of the lines subsection a producer writes here.
EntryLine ==
    [offset |-> U32(16), flags |-> <<32768, 10>>, start_column |-> 0, end_column |-> 0]

\* The body a producer writes under each kind: a lines subsection at Offset1
\* with one block of one line, a table of one file checksum, one inlinee
\* record, one import module without imports, one export.
PartBody(kind) ==
    CASE kind = KindLines ->
            EncodeLinesBody([offset |-> Offset1, cols |-> FALSE,
                             blocks |-> <<[file_index |-> Zero32,
                                           lines |-> <<EntryLine>>]>>])
      [] kind = KindFileChecksums -> EncodeChecksumTable(<<[name |-> U32(1), kind |-> 0, size |-> 0]>>)
      [] kind = KindInlineeLines ->
            EncodeInlineeLines([signature |-> 0,
                                records |-> <<InlineeRecord(0, <<>>)>>])
      [] kind = KindCrossScopeImports ->
            EncodeImports(<<[name |-> ImportModuleName(0), imports |-> <<>>]>>)
      [] kind = KindCrossScopeExports ->
            EncodeExports(<<[local |-> ExportLocals[1], global |-> ExportGlobal(1, 0)]>>)
      [] kind = KindSymbols -> <<1, 2, 3, 4>>
      [] kind = DEBUG_S_IGNORE -> <<9>>
      [] OTHER -> <<>>

\* A part is a subsection whose header declares `short` bytes more than its
\* body has; a stub is the first bytes of a header.
Parts == [kind : PartKinds, short : {0, 1}]
StubPart == [kind |-> <<"stub">>, short |-> 3]

EncodePart(p) ==
    IF p.kind = <<"stub">> THEN [i \in 1 .. p.short |-> 241]
    ELSE U32Bytes(p.kind) \o U32Bytes(U32(Len(PartBody(p.kind)) + p.short))
             \o PartBody(p.kind)

EncodeParts(ps) == Flatten([i \in 1 .. Len(ps) |-> EncodePart(ps[i])])

InitEntry ==
    /\ pc = "start"
    /\ header = <<>>
    /\ entry = None
    /\ layout = <<>>
    /\ data = <<>>
    /\ call = <<>>
    /\ debug_build \in BOOLEAN
    /\ line_iter = <<>>
    /\ line_out = <<>>
    /\ line_last = <<>>
    /\ FilesIdle
    /\ exports = <<>>
    /\ imports = <<>>
    /\ resolved = <<>>
    /\ address \in Addresses
    /\ ScanIdle

\* The producer appends a part; nothing follows a cut one.
WritePart(p) ==
    /\ pc = "start"
    /\ Len(layout) < MaxParts
    /\ \A i \in 1 .. Len(layout) : Whole(layout[i])
    /\ layout' = Append(layout, p)
    /\ data' = EncodeParts(layout')
    /\ UNCHANGED <<pc, header, entry, lines_vars, files_vars, cross_vars, scan_vars>>

\* iter.collect(): the items an iterator returns and how it ends.  Each
\* Collected operator folds the result r of one call of next().
CollectEnd(r, acc) ==
    [items |-> acc, end |-> IF r.tag = "Err" THEN <<"Err", r.err>> ELSE <<r.tag>>]

RECURSIVE CollectInlinees(_, _)
CollectedInlinee(r, acc) ==
    IF r.tag = "Some" THEN CollectInlinees(r.iter, Append(acc, r.item))
    ELSE CollectEnd(r, acc)

CollectInlinees(it, acc) == CollectedInlinee(InlineeIterator_next(it), acc)

RECURSIVE CollectFiles(_, _)
CollectedFile(r, acc) ==
    IF r.tag = "Some" THEN CollectFiles(r.buf, Append(acc, r.item))
    ELSE CollectEnd(r, acc)

CollectFiles(buf, acc) == CollectedFile(FileIterator_next(buf), acc)

RECURSIVE CollectLines(_, _, _)
CollectedLine(r, debug, acc) ==
    IF r.tag = "Some" THEN CollectLines(r.iter, debug, Append(acc, r.item))
    ELSE CollectEnd(r, acc)

CollectLines(it, debug, acc) == CollectedLine(LineIterator_next(it, debug), debug, acc)

\* The caller after CrossModuleImports::parse gave p: stopped when that call
\* aborted the process, else on to the other three parse functions.
DecodeAfterImports(p) ==
    IF p = ProcessAborted
    THEN pc' = "aborted" /\ iter' = [imports |-> p]
    ELSE /\ pc' = "parsed"
         /\ iter' = [imports |-> p,
                     exports |-> CrossModuleExports_parse(data),
                     inlinees |-> InlineeIterator_parse(data),
                     program |-> LineProgram_parse(data),
                     files |-> <<>>, lines |-> <<>>, lines_at_offset |-> <<>>]

\* The caller decodes the module: it calls the four parse functions.
DecodeModule ==
    /\ pc = "start"
    /\ DecodeAfterImports(CrossModuleImports_parse(data, address, debug_build))
    /\ UNCHANGED <<header, entry, layout, data, lines_vars, files_vars,
                   cross_vars, out, log>>

\* With a program, the caller takes its iterators: program.files(),
\* program.lines() and program.lines_at_offset(o) for each offset asked.
OpenIterators ==
    /\ pc = "parsed"
    /\ pc' = "opened"
    /\ iter' = IF ~iter.program.ok THEN iter
               ELSE [iter EXCEPT
                       !.files = LineProgram_files(iter.program.program),
                       !.lines = LineProgram_lines(iter.program.program.data),
                       !.lines_at_offset =
                           [o \in QueryOffsets |->
                               LineProgram_lines_at_offset(iter.program.program.data, o)]]
    /\ UNCHANGED <<header, entry, layout, data, lines_vars, files_vars,
                   cross_vars, out, log>>

\* The caller collects every iterator it has.
CollectIterators ==
    /\ pc = "opened"
    /\ pc' = "decoded"
    /\ out' =
         [inlinees |-> IF ~iter.inlinees.ok THEN <<>>
                       ELSE CollectInlinees(iter.inlinees.inlinees, <<>>),
          files |-> IF ~iter.program.ok THEN <<>>
                    ELSE CollectFiles(iter.files, <<>>),
          lines |-> IF ~iter.program.ok THEN <<>>
                    ELSE CollectLines(iter.lines, debug_build, <<>>),
          lines_at_offset |->
                    IF ~iter.program.ok THEN <<>>
                    ELSE [o \in QueryOffsets |->
                             CollectLines(iter.lines_at_offset[o], debug_build, <<>>)]]
    /\ UNCHANGED <<header, entry, layout, data, lines_vars, files_vars,
                   cross_vars, iter, log>>

NextEntry ==
    \/ \E p \in Parts : WritePart(p)
    \/ WritePart(StubPart)
    \/ DecodeModule
    \/ OpenIterators
    \/ CollectIterators


SpecEntry == InitEntry /\ [][NextEntry]_vars

-----------------------------------------------------------------------------
(* Properties of the decode entry points                                   *)

\* The scan for `kind` finds it before any part at which the framer fails.
FoundBeforeFailure(kind) ==
    \E j \in 1 .. Len(layout) :
        /\ layout[j].kind = kind
        /\ \A i \in Failing : j < i

\* The scan for `kind` meets the failing part first, and the error it meets.
ScanFails(kind) == Failing # {} /\ ~FoundBeforeFailure(kind)
ScanError == ErrorOfChunk(layout[FirstFailing])

\* The four parse functions return the error their scan meets.
ParseSurfacesScanErrors ==
    /\ ScanFails(KindCrossScopeImports) =>
           iter.imports = [ok |-> FALSE, err |-> ScanError]
    /\ ScanFails(KindCrossScopeExports) =>
           iter.exports = [ok |-> FALSE, err |-> ScanError]
    /\ ScanFails(KindInlineeLines) =>
           iter.inlinees = [ok |-> FALSE, err |-> ScanError]
    /\ ScanFails(KindFileChecksums) =>
           iter.program = [ok |-> FALSE, err |-> ScanError]

\* Iterating lines() ends with the error of the scan.
LinesSurfacesScanErrors ==
    (Failing # {} /\ iter.program.ok) => out.lines.end = <<"Err", ScanError>>

\* The lines subsection at offset o is found before the failing part.
LinesFoundBeforeFailure(o) == o = Offset1 /\ FoundBeforeFailure(KindLines)

\* Iterating lines_at_offset(o) ends with the error of the scan.
LinesAtOffsetSurfacesScanErrors ==
    (Failing # {} /\ iter.program.ok) =>
        \A o \in QueryOffsets :
            ~LinesFoundBeforeFailure(o) =>
                out.lines_at_offset[o].end = <<"Err", ScanError>>

\* C16: when the scan of a module's subsections meets an unrecognised kind or
\* a cut header or body before the sought subsection, every entry point gives
\* that error to its caller: the four parse functions return it, and
\* iterating lines() or lines_at_offset() reports it instead of an empty
\* line sequence.
C16_EntryPointsSurfaceScanErrors ==
    pc = "decoded" =>
        /\ ParseSurfacesScanErrors
        /\ LinesSurfacesScanErrors
        /\ LinesAtOffsetSurfacesScanErrors

\* What the code does on those inputs: the parse functions and lines() give
\* the error, lines_at_offset() gives an empty sequence that ends normally.
C16_LinesAtOffsetSwallowsScanErrors ==
    pc = "decoded" =>
        /\ ParseSurfacesScanErrors
        /\ LinesSurfacesScanErrors
        /\ (Failing # {} /\ iter.program.ok) =>
               \A o \in QueryOffsets :
                   ~LinesFoundBeforeFailure(o) =>
                       out.lines_at_offset[o] = [items |-> <<>>, end |-> <<"None">>]

\* No part of the module is of the kind.
Absent(kind) == \A j \in 1 .. Len(layout) : layout[j].kind # kind

NothingCollected == [items |-> <<>>, end |-> <<"None">>]

\* C17: over a module of recognised subsections without the sought kind,
\* decoding succeeds with an empty table: CrossModuleImports::parse gives no
\* modules, CrossModuleExports::parse no exports (resolve_global is None for
\* every local), InlineeIterator::parse an iterator that yields nothing, and
\* LineProgram::parse a program whose files() yields nothing.
C17_MissingSubsectionGivesEmptyTable ==
    (pc = "decoded" /\ Failing = {}) =>
        /\ Absent(KindCrossScopeImports) =>
               iter.imports = [ok |-> TRUE, imports |-> [modules |-> <<>>]]
        /\ Absent(KindCrossScopeExports) =>
               /\ iter.exports.ok
               /\ iter.exports.exports.section.raw_exports = <<>>
               /\ \A local \in LookupLocals :
                      CrossModuleExports_resolve_global(iter.exports.exports, local)
                          = <<"Ok", None>>
        /\ Absent(KindInlineeLines) =>
               /\ iter.inlinees.ok
               /\ out.inlinees = NothingCollected
        /\ Absent(KindFileChecksums) =>
               /\ iter.program.ok
               /\ iter.program.program.data = data
               /\ out.files = NothingCollected

\* A decoded module of three recognised subsections, none of them of a sought
\* kind, whose lines are still presented.
C17_Witness ==
    /\ pc = "decoded"
    /\ Failing = {}
    /\ Len(layout) = 3
    /\ layout[1].kind = KindSymbols
    /\ layout[2].kind = KindLines
    /\ \A kind \in {KindCrossScopeImports, KindCrossScopeExports,
                    KindInlineeLines, KindFileChecksums} : Absent(kind)
    /\ iter.imports.ok
    /\ out.files = NothingCollected
    /\ Len(out.lines.items) = 1

-----------------------------------------------------------------------------
(* The block iterator over arbitrary block headers (SpecBlocks)            *)

MaxBlockLines == 2

\* The block sizes a producer declares: below the 12-byte header, the header
\* alone, and room for one line, one line with columns, two lines, and more.
BlockSizes == {0, 11, 12, 20, 24, 28, 36}

\* The number of bytes present after the block header.
BlockPayloads == {0, 8, 12, 16, 24}

EncodeBlockHeader(b) ==
    U32Bytes(Zero32) \o U32Bytes(U32(b.num_lines)) \o U32Bytes(U32(b.block_size))
        \o [i \in 1 .. b.payload |-> 0]

InitBlocks ==
    /\ pc = "start"
    /\ header \in {[DefaultLinesHeader EXCEPT !.flags = f] : f \in {0, CV_LINES_HAVE_COLUMNS}}
    /\ entry = None
    /\ layout = <<>>
    /\ data = <<>>
    /\ call = <<>>
    /\ debug_build \in BOOLEAN
    /\ line_iter = <<>>
    /\ line_out = <<>>
    /\ line_last = <<>>
    /\ FilesIdle
    /\ CrossIdle
    /\ ScanIdle

\* The producer writes one block header and the bytes after it.
WriteBlockHeader(bs, nl, payload) ==
    /\ pc = "start"
    /\ layout = <<>>
    /\ layout' = <<[block_size |-> bs, num_lines |-> nl, payload |-> payload]>>
    /\ data' = EncodeBlockHeader(layout'[1])
    /\ UNCHANGED <<pc, header, entry, lines_vars, files_vars, cross_vars, scan_vars>>

\* DebugLinesSubsection::blocks over the written bytes.
BlockIteratorNew ==
    /\ pc = "start"
    /\ layout # <<>>
    /\ pc' = "iterating"
    /\ iter' = DebugLinesSubsection_blocks([header |-> header, data |-> data])
    /\ UNCHANGED <<header, entry, layout, data, lines_vars, files_vars, cross_vars,
                   out, log>>

\* The caller keeps the result r of a call and goes on after a block.
BlockIteratorKeep(r) ==
    /\ iter' = r.iter
    /\ out' = Append(out, [r EXCEPT !.iter = r.iter.buf.pos])
    /\ pc' = IF r.tag = "Some" THEN "iterating" ELSE "done"

\* DebugLinesBlockIterator::next
BlockIteratorNext ==
    /\ pc = "iterating"
    /\ BlockIteratorKeep(DebugLinesBlockIterator_next(iter, debug_build))
    /\ UNCHANGED <<header, entry, layout, data, lines_vars, files_vars, cross_vars, log>>

NextBlocks ==
    \/ \E bs \in BlockSizes, nl \in 0 .. MaxBlockLines, payload \in BlockPayloads :
           WriteBlockHeader(bs, nl, payload)
    \/ BlockIteratorNew
    \/ BlockIteratorNext

SpecBlocks == InitBlocks /\ [][NextBlocks]_vars

\* The bytes the records of the written block need, and those it declares.
BlockNeeds ==
    layout[1].num_lines
        * (LineNumberHeader_SIZE
             + IF DebugLinesHeader_has_columns(header) THEN ColumnNumberEntry_SIZE ELSE 0)
BlockDeclares == layout[1].block_size - DebugLinesBlockHeader_SIZE

\* C18: for every block header (any block_size, num_lines and column flag)
\* DebugLinesBlockIterator::next returns a block or an error and never
\* terminates abnormally; a block_size below the 12-byte header and a
\* num_lines whose records need more than block_size - 12 bytes each give a
\* returned error.
C18_BlockIteratorReturnsBlockOrError ==
    /\ \A i \in 1 .. Len(out) : out[i].tag \in {"Some", "None", "Err"}
    /\ (Len(out) >= 1 /\ (BlockDeclares < 0 \/ BlockNeeds > BlockDeclares)) =>
           out[1].tag = "Err"

\* What the code does with the written block: a panic when block_size is
\* below 12 in a build that checks overflow, and, when the declared bytes are
\* present, a panic of split_at when the records need more than the block
\* declares (every build) or of the debug assertion when they need less
\* (builds with debug assertions); otherwise a block or a returned error.
C18_BlockIteratorPanics ==
    Len(out) >= 1 =>
        (out[1].tag = "Panic" <=>
            \/ debug_build /\ BlockDeclares < 0
            \/ /\ BlockDeclares >= 0
               /\ layout[1].payload >= BlockDeclares
               /\ \/ BlockNeeds > BlockDeclares
                  \/ debug_build /\ BlockNeeds < BlockDeclares)

-----------------------------------------------------------------------------
(* The inline line reconstruction engine: InlineeLineIterator              *)

\* a - b modulo 2^32, and whether a + b passes 2^32.
U32WrappingSub(a, b) ==
    <<(a[1] - b[1] - (IF a[2] < b[2] THEN 1 ELSE 0)) % Half, (a[2] - b[2]) % Half>>

U32AddOverflows(a, b) == a[1] + b[1] + ((a[2] + b[2]) \div Half) >= Half

\* The magnitude of a negative i32, as a u32.
U32Magnitude(delta) == U32WrappingAdd(U32(-(delta + 1)), U32(1))

\* A sum of a u32 and an i32 that stops at 0 and at 2^32 - 1.
I64AddSaturating(w, delta) ==
    IF delta >= 0
    THEN IF U32AddOverflows(w, U32(delta)) THEN <<Half - 1, Half - 1>>
         ELSE U32WrappingAdd(w, U32(delta))
    ELSE IF U32Lt(w, U32Magnitude(delta)) THEN Zero32
         ELSE U32WrappingSub(w, U32Magnitude(delta))

\* (i64::from(w) + i64::from(delta)) as u32, for a u32 w and an i32 delta.
I64AddAsU32(w, delta) ==
    <<(w[1] + (delta \div Half) + ((w[2] + (delta % Half)) \div Half)) % Half,
      (w[2] + (delta % Half)) % Half>>

\* BinaryAnnotation::emits_line_info
BinaryAnnotation_emits_line_info(op) ==
    op.op \in {"ChangeCodeOffset", "ChangeCodeOffsetAndLineOffset",
               "ChangeCodeLengthAndCodeOffset"}

\* InlineeLineIterator::new over the annotations of the inline site.
InlineeLineIterator_new(parent_offset, annotations, inlinee_line) ==
    [annotations |-> annotations,
     file_index |-> inlinee_line.file_id,
     code_offset_base |-> Zero32,
     code_offset |-> parent_offset,
     code_length |-> None,
     line |-> inlinee_line.line,
     line_length |-> U32(1),
     col_start |-> None,
     col_end |-> None,
     line_kind |-> "Statement",
     last_info |-> None]

\* A back-patch that overwrites a length that is set.
PatchOverwritingLength(last_info, line_kind, length) ==
    IF last_info # None /\ last_info[1].kind = line_kind
    THEN Some([last_info[1] EXCEPT !.length = Some(length)])
    ELSE last_info

\* if let Some(ref mut last_info) = self.last_info {
\*     if last_info.length.is_none() && last_info.kind == self.line_kind {
\*         last_info.length = Some(length);
PatchLength(last_info, line_kind, length) ==
    IF last_info # None /\ last_info[1].length = None /\ last_info[1].kind = line_kind
    THEN Some([last_info[1] EXCEPT !.length = Some(length)])
    ELSE last_info

\* The arm of `match op` in next(): the state after the operation.
ApplyAnnotation(it, op) ==
    CASE op.op = "CodeOffset" -> [it EXCEPT !.code_offset.offset = op.a]
      [] op.op = "ChangeCodeOffsetBase" -> [it EXCEPT !.code_offset_base = op.a]
      [] op.op = "ChangeCodeOffset" ->
            [it EXCEPT !.code_offset = SectionOffsetAdd(@, op.a)]
      [] op.op = "ChangeCodeLength" ->
            [it EXCEPT !.last_info = PatchLength(@, it.line_kind, op.a),
                       !.code_offset = SectionOffsetAdd(@, op.a)]
      [] op.op = "ChangeFile" -> [it EXCEPT !.file_index = op.a]
      [] op.op = "ChangeLineOffset" -> [it EXCEPT !.line = I64AddAsU32(@, op.delta)]
      [] op.op = "ChangeLineEndDelta" -> [it EXCEPT !.line_length = op.a]
      [] op.op = "ChangeRangeKind" ->
            [it EXCEPT !.line_kind = IF op.a = Zero32 THEN "Expression"
                                     ELSE IF op.a = U32(1) THEN "Statement"
                                     ELSE @]
      [] op.op = "ChangeColumnStart" -> [it EXCEPT !.col_start = Some(op.a)]
      [] op.op = "ChangeColumnEndDelta" ->
            [it EXCEPT !.col_end = IF @ = None THEN None
                                   ELSE Some(I64AddAsU32(@[1], op.delta))]
      [] op.op = "ChangeCodeOffsetAndLineOffset" ->
            [it EXCEPT !.code_offset = SectionOffsetAdd(@, op.a),
                       !.line = I64AddAsU32(@, op.delta)]
      [] op.op = "ChangeCodeLengthAndCodeOffset" ->
            [it EXCEPT !.code_length = Some(op.a),
                       !.code_offset = SectionOffsetAdd(@, op.b)]
      [] op.op = "ChangeColumnEnd" -> [it EXCEPT !.col_end = Some(op.a)]

\* `self.code_offset += code_delta` past 2^32 in a build that checks overflow.
ArmPanics(it, op, debug) ==
    /\ debug
    /\ \/ /\ op.op = "ChangeCodeOffsetAndLineOffset"
          /\ SectionOffsetOverflows(it.code_offset, op.a)
       \/ /\ op.op = "ChangeCodeLengthAndCodeOffset"
          /\ SectionOffsetOverflows(it.code_offset, op.b)

\* The iterator a panic of the arm leaves behind: ChangeCodeLengthAndCodeOffset
\* has stored the code length before its sum panics, the arm of
\* ChangeCodeOffsetAndLineOffset has stored nothing.
ArmPanicState(it, op) ==
    IF op.op = "ChangeCodeLengthAndCodeOffset"
    THEN [it EXCEPT !.code_length = Some(op.a)]
    ELSE it

\* The pending record after the back-patch of an emitting operation.
EmitPatch(it) ==
    PatchLength(it.last_info, it.line_kind,
                U32WrappingSub(it.code_offset.offset, it.code_offset_base))

\* let line_info = LineInfo { .. }
NewLineInfo(it) ==
    [kind |-> it.line_kind,
     file_index |-> it.file_index,
     offset |-> SectionOffsetAdd(it.code_offset, it.code_offset_base),
     length |-> it.code_length,
     line_start |-> it.line,
     line_end |-> U32WrappingAdd(it.line, it.line_length),
     column_start |-> it.col_start,
     column_end |-> it.col_end]

\* The subtraction of the back-patch goes below zero.
PatchUnderflows(it) ==
    /\ EmitPatch(it) # it.last_info
    /\ U32Lt(it.code_offset.offset, it.code_offset_base)

\* The subtraction of the back-patch below zero, and the sums of the new
\* record past 2^32, in a build that checks overflow.
EmitPanics(it, debug) ==
    /\ debug
    /\ \/ PatchUnderflows(it)
       \/ SectionOffsetOverflows(it.code_offset, it.code_offset_base)
       \/ U32AddOverflows(it.line, it.line_length)

\* The iterator a panic after the arm leaves behind: as the arm left it when
\* the subtraction of the back-patch panics, with the pending record patched
\* when a sum of the new record panics.
EmitPanicState(it) ==
    IF PatchUnderflows(it) THEN it ELSE [it EXCEPT !.last_info = EmitPatch(it)]

\* A swap that leaves the code length in place for the next record.
SwapInKeepingLength(it) == [it EXCEPT !.last_info = Some(NewLineInfo(it))]

\* self.code_length = None; mem::replace(&mut self.last_info, Some(line_info))
SwapIn(it) == [it EXCEPT !.code_length = None, !.last_info = Some(NewLineInfo(it))]

\* InlineeLineIterator::next: [tag, iter] with the LineInfo when tag = "Some".
RECURSIVE InlineeLineIterator_next(_, _)
InlineeLineIterator_emit(it, debug) ==
    IF EmitPanics(it, debug) THEN [tag |-> "Panic", iter |-> EmitPanicState(it)]
    ELSE IF it.last_info # None
    THEN [tag |-> "Some", iter |-> SwapIn(it), item |-> EmitPatch(it)[1]]
    ELSE InlineeLineIterator_next(SwapIn(it), debug)

InlineeLineIterator_turn(it, op, debug) ==
    IF ArmPanics(it, op, debug) THEN [tag |-> "Panic", iter |-> ArmPanicState(it, op)]
    ELSE IF ~BinaryAnnotation_emits_line_info(op)
    THEN InlineeLineIterator_next(ApplyAnnotation(it, op), debug)
    ELSE InlineeLineIterator_emit(ApplyAnnotation(it, op), debug)

InlineeLineIterator_next(it, debug) ==
    IF it.annotations # <<>>
    THEN InlineeLineIterator_turn([it EXCEPT !.annotations = Tail(@)],
                                  Head(it.annotations), debug)
    ELSE IF it.last_info # None
    THEN [tag |-> "Some", iter |-> [it EXCEPT !.last_info = None],
          item |-> it.last_info[1]]
    ELSE [tag |-> "None", iter |-> it]

\* The operations one call of next() consumes, each with the state before
\* and after its arm, in order.
RECURSIVE StepsOfNext(_, _)
StepsAfterArm(it, op, debug) ==
    IF ~BinaryAnnotation_emits_line_info(op) THEN StepsOfNext(it, debug)
    ELSE IF EmitPanics(it, debug) \/ it.last_info # None THEN <<>>
    ELSE StepsOfNext(SwapIn(it), debug)

StepsOfTurn(it, op, debug) ==
    IF ArmPanics(it, op, debug) THEN <<>>
    ELSE <<[op |-> op, before |-> it, after |-> ApplyAnnotation(it, op)]>>
             \o StepsAfterArm(ApplyAnnotation(it, op), op, debug)

StepsOfNext(it, debug) ==
    IF it.annotations = <<>> THEN <<>>
    ELSE StepsOfTurn([it EXCEPT !.annotations = Tail(@)], Head(it.annotations), debug)

-----------------------------------------------------------------------------
(* Replaying the annotations of an inline site (SpecInlineSite)            *)

MaxOps == 3

\* The inline site of the test: parent offset {section 1, offset 0x120}, an
\* inlinee record {file 0x270, line 341}.
ParentOffset == [offset |-> U32(288), section |-> 1]
SiteInlinee == [inlinee |-> U32(4480), file_id |-> U32(624), line |-> U32(341),
                extra_files |-> <<>>]

\* An operation with its unsigned operands a and b and its signed one.
Annotation(op, a, b, delta) == [op |-> op, a |-> a, b |-> b, delta |-> delta]

\* The operations a producer writes: every kind, with the operands of the
\* test for the combined ones, a code offset below the rebase value, and a
\* range kind that is neither 0 nor 1.
Annotations ==
    {Annotation("CodeOffset", U32(16), Zero32, 0),
     Annotation("ChangeCodeOffsetBase", U32(512), Zero32, 0),
     Annotation("ChangeCodeOffset", U32(1), Zero32, 0),
     Annotation("ChangeCodeLength", U32(5), Zero32, 0),
     Annotation("ChangeFile", U32(768), Zero32, 0),
     Annotation("ChangeLineOffset", Zero32, Zero32, -1),
     Annotation("ChangeLineEndDelta", U32(3), Zero32, 0),
     Annotation("ChangeRangeKind", Zero32, Zero32, 0),
     Annotation("ChangeRangeKind", U32(1), Zero32, 0),
     Annotation("ChangeRangeKind", U32(2), Zero32, 0),
     Annotation("ChangeColumnStart", U32(7), Zero32, 0),
     Annotation("ChangeColumnEndDelta", Zero32, Zero32, -2),
     Annotation("ChangeCodeOffsetAndLineOffset", U32(4), Zero32, 2),
     Annotation("ChangeCodeLengthAndCodeOffset", U32(2), U32(63), 0),
     Annotation("ChangeCodeLengthAndCodeOffset", U32(3), U32(9), 0),
     Annotation("ChangeColumnEnd", U32(9), Zero32, 0)}

InitInlineSite ==
    /\ pc = "start"
    /\ header = <<>>
    /\ entry = None
    /\ layout = <<>>
    /\ data = <<>>
    /\ call = <<>>
    /\ debug_build \in BOOLEAN
    /\ line_iter = <<>>
    /\ line_out = <<>>
    /\ line_last = <<>>
    /\ FilesIdle
    /\ CrossIdle
    /\ ScanIdle

\* The producer appends an operation to the annotations of the inline site.
WriteOp(op) ==
    /\ pc = "start"
    /\ Len(layout) < MaxOps
    /\ layout' = Append(layout, op)
    /\ UNCHANGED <<pc, header, entry, data, lines_vars, files_vars, cross_vars, scan_vars>>

\* InlineeLineIterator::new
InlineeLineIteratorNew ==
    /\ pc = "start"
    /\ pc' = "iterating"
    /\ iter' = InlineeLineIterator_new(ParentOffset, layout, SiteInlinee)
    /\ UNCHANGED <<header, entry, layout, data, lines_vars, files_vars, cross_vars,
                   out, log>>

\* The caller keeps the result r of a call, with the number of operations
\* consumed so far, and goes on after a record.
InlineeLineIteratorKeep(r) ==
    /\ iter' = r.iter
    /\ out' = Append(out, [r EXCEPT !.iter = Len(layout) - Len(r.iter.annotations)])
    /\ pc' = IF r.tag = "Some" THEN "iterating" ELSE "done"

\* InlineeLineIterator::next
InlineeLineIteratorNext ==
    /\ pc = "iterating"
    /\ InlineeLineIteratorKeep(InlineeLineIterator_next(iter, debug_build))
    /\ log' = log \o StepsOfNext(iter, debug_build)
    /\ UNCHANGED <<header, entry, layout, data, lines_vars, files_vars, cross_vars>>

NextInlineSite ==
    \/ \E op \in Annotations : WriteOp(op)
    \/ InlineeLineIteratorNew
    \/ InlineeLineIteratorNext

SpecInlineSite == InitInlineSite /\ [][NextInlineSite]_vars

-----------------------------------------------------------------------------
(* Properties of the inline line reconstruction engine                     *)

\* The positions of the emitting operations, and the i-th of them.
EmittingPositions ==
    {j \in 1 .. Len(layout) : BinaryAnnotation_emits_line_info(layout[j])}

EmittingPosition(i) ==
    CHOOSE j \in EmittingPositions :
        Cardinality({e \in EmittingPositions : e <= j}) = i

\* The state of the engine's registers after the arms of the first j
\* operations, whatever was emitted meanwhile.
RECURSIVE RegistersAfter(_)
RegistersAfter(j) ==
    IF j = 0 THEN InlineeLineIterator_new(ParentOffset, <<>>, SiteInlinee)
    ELSE ApplyAnnotation(RegistersAfter(j - 1), layout[j])

\* A record without its length, which is settled after construction.
WithoutLength(info) == [info EXCEPT !.length = None]

Aborted == \E i \in 1 .. Len(out) : out[i].tag = "Panic"

\* The i-th call returned the record constructed at the i-th emitting
\* operation, and returned it at the next emitting operation or, for the
\* last record, when the operations were exhausted.
YieldedInOrder(i) ==
    /\ out[i].tag = "Some"
    /\ i <= Cardinality(EmittingPositions)
    /\ WithoutLength(out[i].item)
           = WithoutLength(NewLineInfo(RegistersAfter(EmittingPosition(i))))
    /\ out[i].iter = IF i < Cardinality(EmittingPositions)
                     THEN EmittingPosition(i + 1)
                     ELSE Len(layout)

\* C13: over a sequence of operations of which k emit line info, the
\* iterator yields exactly k records and then the end: the i-th record is
\* the one constructed at the i-th emitting operation (offset, lines, file,
\* columns and kind of that moment), it is returned at the next emitting
\* operation, the last one when the operations are exhausted, and no other
\* operation makes the iterator return a record.
C13_YieldsOneRecordPerEmittingOperation ==
    pc = "done" =>
        /\ Len(out) = Cardinality(EmittingPositions) + 1
        /\ out[Len(out)].tag = "None"
        /\ \A i \in 1 .. Len(out) - 1 : YieldedInOrder(i)

\* What the code does: the records come out as C13 says until the
\* operations are exhausted or a build that checks overflow aborts the call.
C13_YieldsInOrderUntilAborted ==
    /\ \A i \in 1 .. Len(out) :
           \/ YieldedInOrder(i)
           \/ i = Len(out) /\ pc = "done" /\ out[i].tag \in {"None", "Panic"}
    /\ (pc = "done" /\ ~Aborted) => Len(out) = Cardinality(EmittingPositions) + 1
    /\ Aborted => debug_build

\* The two records of the test: two ChangeCodeLengthAndCodeOffset operations
\* give {1, 0x15f} and {1, 0x168} with lengths 2 and 3 on lines 341..342.
TestRecordsYielded ==
    /\ pc = "done"
    /\ layout = <<Annotation("ChangeCodeLengthAndCodeOffset", U32(2), U32(63), 0),
                  Annotation("ChangeCodeLengthAndCodeOffset", U32(3), U32(9), 0)>>
    /\ Len(out) = 3
    /\ out[1].item = [kind |-> "Statement", file_index |-> U32(624),
                      offset |-> [offset |-> U32(351), section |-> 1],
                      length |-> Some(U32(2)), line_start |-> U32(341),
                      line_end |-> U32(342), column_start |-> None,
                      column_end |-> None]
    /\ out[2].item = [out[1].item EXCEPT !.offset.offset = U32(360),
                                         !.length = Some(U32(3))]

\* The pending record of state `it` is there, has no length yet, and is of
\* the current kind.
PendingOpen(it) ==
    /\ it.last_info # None
    /\ it.last_info[1].length = None
    /\ it.last_info[1].kind = it.line_kind

\* C20: a ChangeCodeLength(n) operation sets the length of the pending record
\* to n exactly when there is a pending record whose length is unset and
\* whose kind is the current kind; otherwise it leaves the pending record as
\* it is, so a length that is set is never overwritten.
C20_ChangeCodeLengthBackPatches ==
    \A j \in 1 .. Len(log) :
        log[j].op.op = "ChangeCodeLength" =>
            /\ PendingOpen(log[j].before) =>
                   log[j].after.last_info
                       = Some([log[j].before.last_info[1]
                                   EXCEPT !.length = Some(log[j].op.a)])
            /\ ~PendingOpen(log[j].before) =>
                   log[j].after.last_info = log[j].before.last_info
            /\ log[j].before.last_info # None =>
                   (log[j].before.last_info[1].length # None =>
                        log[j].after.last_info[1].length
                            = log[j].before.last_info[1].length)

\* A record emitted without a length gets 5 from the first ChangeCodeLength
\* and keeps it at the second one, and comes out with it.
C20_Witness ==
    /\ pc = "done"
    /\ Len(layout) = 3
    /\ layout[1].op = "ChangeCodeOffset"
    /\ layout[2] = Annotation("ChangeCodeLength", U32(5), Zero32, 0)
    /\ layout[3] = layout[2]
    /\ Len(log) = 3
    /\ PendingOpen(log[2].before)
    /\ log[2].after.last_info[1].length = Some(U32(5))
    /\ ~PendingOpen(log[3].before)
    /\ log[3].after.last_info = log[3].before.last_info
    /\ out[1].tag = "Some"
    /\ out[1].item.length = Some(U32(5))

\* The operations that move the code offset or its rebase value.
MovesOffset(op) ==
    op.op \in {"CodeOffset", "ChangeCodeOffsetBase", "ChangeCodeOffset",
               "ChangeCodeLength", "ChangeCodeOffsetAndLineOffset",
               "ChangeCodeLengthAndCodeOffset"}

\* The code offset delta an emitting operation applies.
AppliedDelta(op) ==
    IF op.op = "ChangeCodeLengthAndCodeOffset" THEN op.b ELSE op.a

\* The i-th record was returned at the next emitting operation, and nothing
\* between the two emitting operations moved the code offset.
PatchedByNextEmit(i) ==
    /\ out[i].tag = "Some"
    /\ i < Cardinality(EmittingPositions)
    /\ \A j \in EmittingPosition(i) + 1 .. EmittingPosition(i + 1) - 1 :
           ~MovesOffset(layout[j])

\* The i-th record as constructed, and the registers at the emitting
\* operation that returns it.
ConstructedRecord(i) == log[EmittingPosition(i) + 1].before.last_info[1]
RegistersAtReturn(i) == log[EmittingPosition(i + 1)].after

\* The i-th record was open for the back-patch of the next emitting operation.
OpenAtReturn(i) ==
    /\ ConstructedRecord(i).length = None
    /\ ConstructedRecord(i).kind = RegistersAtReturn(i).line_kind

\* C21: at an emitting operation a pending record without a length and of
\* the current kind gets as length the code offset delta that operation
\* applied, the distance from the record's code position to the new one,
\* whatever the parent offset; a pending record with a length or of another
\* kind is left as it is.
C21_EmitPatchesOffsetDelta ==
    \A i \in 1 .. Len(out) :
        PatchedByNextEmit(i) =>
            out[i].item.length
                = IF OpenAtReturn(i)
                  THEN Some(AppliedDelta(layout[EmittingPosition(i + 1)]))
                  ELSE ConstructedRecord(i).length

\* What the code does: the length is the new code offset less the rebase
\* value, which holds the parent offset and every delta applied so far.
C21_EmitPatchesOffsetLessRebase ==
    \A i \in 1 .. Len(out) :
        PatchedByNextEmit(i) =>
            out[i].item.length
                = IF OpenAtReturn(i)
                  THEN Some(U32WrappingSub(RegistersAtReturn(i).code_offset.offset,
                                           RegistersAtReturn(i).code_offset_base))
                  ELSE ConstructedRecord(i).length

-----------------------------------------------------------------------------
(* Signed deltas at the ends of the u32 range (SpecDeltas)                 *)

MaxDeltaOps == 2

\* The lines and column ends the deltas are applied to, and the deltas: the
\* ends of both ranges, their middles, and the line of the test.
DeltaBases ==
    {Zero32, U32(1), U32(341), <<32767, 65535>>, <<32768, 0>>, <<65535, 65535>>}

SignedDeltas == {-2147483647 - 1, -342, -1, 0, 1, 2147483647}

DeltaAnnotations ==
    {Annotation("ChangeColumnEnd", base, Zero32, 0) : base \in DeltaBases}
        \cup {Annotation(op, IF op = "ChangeCodeOffsetAndLineOffset" THEN U32(4) ELSE Zero32,
                         Zero32, delta) :
                 op \in {"ChangeLineOffset", "ChangeColumnEndDelta",
                         "ChangeCodeOffsetAndLineOffset"},
                 delta \in SignedDeltas}

\* The inlinee record of the site starts at any of the lines.
InitDeltas ==
    /\ pc = "start"
    /\ header = <<>>
    /\ entry \in {[SiteInlinee EXCEPT !.line = base] : base \in DeltaBases}
    /\ layout = <<>>
    /\ data = <<>>
    /\ call = <<>>
    /\ debug_build \in BOOLEAN
    /\ line_iter = <<>>
    /\ line_out = <<>>
    /\ line_last = <<>>
    /\ FilesIdle
    /\ CrossIdle
    /\ ScanIdle

WriteDeltaOp(op) ==
    /\ pc = "start"
    /\ Len(layout) < MaxDeltaOps
    /\ layout' = Append(layout, op)
    /\ UNCHANGED <<pc, header, entry, data, lines_vars, files_vars, cross_vars, scan_vars>>

\* InlineeLineIterator::new for the inlinee record chosen.
DeltaIteratorNew ==
    /\ pc = "start"
    /\ pc' = "iterating"
    /\ iter' = InlineeLineIterator_new(ParentOffset, layout, entry)
    /\ UNCHANGED <<header, entry, layout, data, lines_vars, files_vars, cross_vars,
                   out, log>>

NextDeltas ==
    \/ \E op \in DeltaAnnotations : WriteDeltaOp(op)
    \/ DeltaIteratorNew
    \/ InlineeLineIteratorNext

SpecDeltas == InitDeltas /\ [][NextDeltas]_vars

\* (w + delta) mod 2^32 by adding the delta or taking its magnitude away.
WrapSigned(w, delta) ==
    IF delta >= 0 THEN U32WrappingAdd(w, U32(delta))
    ELSE U32WrappingSub(w, U32Magnitude(delta))

\* C22: signed deltas wrap modulo 2^32 and never saturate: ChangeLineOffset(d)
\* and ChangeCodeOffsetAndLineOffset(_, d) set the line to (line + d) mod
\* 2^32, ChangeColumnEndDelta(d) sets the column end to (column end + d) mod
\* 2^32, for every u32 base and every i32 delta.
C22_SignedDeltasWrap ==
    \A j \in 1 .. Len(log) :
        /\ log[j].op.op \in {"ChangeLineOffset", "ChangeCodeOffsetAndLineOffset"} =>
               log[j].after.line = WrapSigned(log[j].before.line, log[j].op.delta)
        /\ (log[j].op.op = "ChangeColumnEndDelta" /\ log[j].before.col_end # None) =>
               log[j].after.col_end
                   = Some(WrapSigned(log[j].before.col_end[1], log[j].op.delta))

\* Line 0 less 1 is 2^32 - 1, and that line plus 1 is 0 again.
C22_Witness ==
    /\ pc = "done"
    /\ entry.line = Zero32
    /\ Len(log) = 2
    /\ log[1].op = Annotation("ChangeLineOffset", Zero32, Zero32, -1)
    /\ log[1].after.line = <<65535, 65535>>
    /\ log[2].op = Annotation("ChangeCodeOffsetAndLineOffset", U32(4), Zero32, 1)
    /\ log[2].after.line = Zero32

-----------------------------------------------------------------------------
(* The one-shot code length                                                *)

\* The last record the iterator returned.
LastYielded ==
    out[CHOOSE i \in 1 .. Len(out) :
            /\ out[i].tag = "Some"
            /\ \A k \in i + 1 .. Len(out) : out[k].tag # "Some"].item

\* The record constructed at the j-th operation consumed: the pending record
\* the engine holds right after it, or, for the last operation consumed, the
\* record flushed when nothing is pending any more.
PendingAfter(j) ==
    IF j < Len(log) THEN log[j + 1].before.last_info
    ELSE IF iter.last_info # None THEN iter.last_info
    ELSE Some(LastYielded)

\* The j-th operation consumed constructed a record: it emits, and the call
\* was not aborted in its emit section.
Constructs(j) ==
    /\ BinaryAnnotation_emits_line_info(log[j].op)
    /\ ~ /\ j = Len(log)
         /\ out[Len(out)].tag = "Panic"
         /\ out[Len(out)].iter = j

\* C23: the code length of ChangeCodeLengthAndCodeOffset(n, _) is one-shot:
\* a record is constructed with length Some(n) only if such an operation set
\* n since the previous record was constructed, and with None otherwise;
\* every construction resets the code length, so it never carries over from
\* one record to the next.
C23_CodeLengthIsOneShot ==
    /\ \A j \in 1 .. Len(log) :
           /\ log[j].before.code_length = None
           /\ Constructs(j) =>
                  /\ PendingAfter(j) # None
                  /\ PendingAfter(j)[1].length
                         = IF log[j].op.op = "ChangeCodeLengthAndCodeOffset"
                           THEN Some(log[j].op.a)
                           ELSE None
    /\ pc = "iterating" => iter.code_length = None

\* A record constructed with length 2 is followed by one constructed without
\* a length, and the first one comes out with its 2.
C23_Witness ==
    /\ pc = "done"
    /\ Len(log) = 3
    /\ log[1].op = Annotation("ChangeCodeLengthAndCodeOffset", U32(2), U32(63), 0)
    /\ log[2].op.op = "ChangeCodeOffset"
    /\ log[3].op.op = "ChangeFile"
    /\ log[2].before.last_info[1].length = Some(U32(2))
    /\ log[3].before.last_info[1].length = None
    /\ out[1].item.length = Some(U32(2))
    /\ out[2].tag = "Some"

=============================================================================
